---- MODULE Spec2Model ----
(***************************************************************************)
(* The fact-graph indexer and query engine of the CodeQL MCP server:       *)
(* handleBuildGraphIndex (src/src/index.ts), clearDatabase and             *)
(* updateForeignKeys (src/src/postgres.ts), the relational schema          *)
(* (schema.sql, kept in src/scripts/setup-database.sh) and the graph       *)
(* queries of src/src/index.ts.                                            *)
(*                                                                         *)
(* A text is a sequence of one-character strings; the SQL NULL of a text   *)
(* column is NULL; the SQL NULL of an integer id column is NULLID.         *)
(*                                                                         *)
(* relations tells whether setup-database.sh has created the tables;       *)
(* tempDir holds the files of the .temp directory, each with its name and  *)
(* its content; inflight holds the build_graph_index calls that are        *)
(* between two of their awaits, or the call-chain statement the store is   *)
(* evaluating.                                                             *)
(***************************************************************************)
EXTENDS Integers, Sequences, FiniteSets, TLC

VARIABLES functions, classes, function_calls, class_methods, seq, builds, lastOp,
          relations, tempDir, inflight

vars ==
  <<functions, classes, function_calls, class_methods, seq, builds, lastOp,
    relations, tempDir, inflight>>

\* what lies outside the rows of the tables: whether the tables of schema.sql
\* exist, the files of the shared .temp directory, the builds and the statement
\* evaluations under way
environment == <<relations, tempDir, inflight>>

(***************************************************************************)
(* Bounds of the model.                                                    *)
(***************************************************************************)
MaxBuilds == 3
MaxIngestBuilds == 2
MaxRows == 2
MaxDepthArg == 5

(***************************************************************************)
(* Texts.                                                                  *)
(***************************************************************************)
NULL == <<"null">>
NULLID == 0

Range(s) == {s[i] : i \in 1..Len(s)}

\* the halves of a sequence
FirstHalf(s) == SubSeq(s, 1, Len(s) \div 2)
SecondHalf(s) == SubSeq(s, Len(s) \div 2 + 1, Len(s))

RECURSIVE Flat(_)
Flat(ss) ==
  IF ss = <<>> THEN <<>>
  ELSE IF Len(ss) = 1 THEN ss[1]
  ELSE Flat(FirstHalf(ss)) \o Flat(SecondHalf(ss))

RECURSIVE JoinComma(_)
JoinComma(fields) ==
  IF fields = <<>> THEN <<>>
  ELSE IF Len(fields) = 1 THEN Head(fields)
  ELSE Head(fields) \o <<",">> \o JoinComma(Tail(fields))

StartsWith(s, p) == Len(s) >= Len(p) /\ SubSeq(s, 1, Len(p)) = p

IsSpace(ch) == ch \in {" ", "\t", "\r", "\n"}

RECURSIVE TrimLeft(_)
TrimLeft(s) == IF s # <<>> /\ IsSpace(Head(s)) THEN TrimLeft(Tail(s)) ELSE s

RECURSIVE TrimRight(_)
TrimRight(s) ==
  IF s # <<>> /\ IsSpace(s[Len(s)]) THEN TrimRight(SubSeq(s, 1, Len(s) - 1)) ELSE s

Trim(s) == TrimRight(TrimLeft(s))

\* index of the first occurrence of ch in s, 0 when there is none
RECURSIVE IndexFrom(_, _, _)
IndexFrom(s, ch, i) ==
  IF i > Len(s) THEN 0 ELSE IF s[i] = ch THEN i ELSE IndexFrom(s, ch, i + 1)

IndexOf(s, ch) == IndexFrom(s, ch, 1)

(***************************************************************************)
(* parseCSVLine and the field mapping of the row loop.                     *)
(***************************************************************************)
RECURSIVE parseCSVFrom(_, _, _, _, _)
parseCSVFrom(line, i, current, inQuotes, result) ==
  IF i > Len(line) THEN Append(result, current)
  ELSE LET char == line[i]
           nextIsQuote == i + 1 <= Len(line) /\ line[i + 1] = "\""
       IN  IF char = "\"" /\ ~inQuotes
             THEN parseCSVFrom(line, i + 1, current, TRUE, result)
           ELSE IF char = "\"" /\ inQuotes /\ nextIsQuote
             THEN parseCSVFrom(line, i + 2, Append(current, "\""), inQuotes, result)
           ELSE IF char = "\"" /\ inQuotes
             THEN parseCSVFrom(line, i + 1, current, FALSE, result)
           ELSE IF char = "," /\ ~inQuotes
             THEN parseCSVFrom(line, i + 1, <<>>, inQuotes, Append(result, current))
           ELSE parseCSVFrom(line, i + 1, Append(current, char), inQuotes, result)

parseCSVLine(line) == parseCSVFrom(line, 1, <<>>, FALSE, <<>>)

\* the fields without the mapping of empty fields to null
partsOf_KeepsEmpty(line) ==
  LET raw == parseCSVLine(line)
  IN  [i \in 1..Len(raw) |-> Trim(raw[i])]

\* parseCSVLine(line).map(v => { v = v.trim(); return v === "" ? null : v })
partsOf(line) ==
  LET raw == parseCSVLine(line)
  IN  [i \in 1..Len(raw) |-> IF Trim(raw[i]) = <<>> THEN NULL ELSE Trim(raw[i])]

(***************************************************************************)
(* processRow of extract-calls.ql: the derived callee_name.                *)
(***************************************************************************)
UnresolvedPrefix == <<"u", "n", "r", "e", "s", "o", "l", "v", "e", "d", ":">>

\* match[1] of /^([^@]+)@/ on s, NULL when the expression does not match
BeforeAt(s) ==
  LET at == IndexOf(s, "@")
  IN  IF at >= 2 THEN SubSeq(s, 1, at - 1) ELSE NULL

\* the prefix taken for part of the name
calleeNameOf_KeepsPrefix(calleeId) ==
  IF calleeId = NULL THEN NULL
  ELSE BeforeAt(calleeId)

calleeNameOf(calleeId) ==
  IF calleeId = NULL THEN NULL
  ELSE IF StartsWith(calleeId, UnresolvedPrefix)
    THEN BeforeAt(SubSeq(calleeId, Len(UnresolvedPrefix) + 1, Len(calleeId)))
  ELSE BeforeAt(calleeId)

processRow(parts) ==
  Append(parts, IF Len(parts) >= 2 THEN calleeNameOf(parts[2]) ELSE NULL)

(***************************************************************************)
(* The relational store: schema.sql.                                       *)
(***************************************************************************)
Tables == {"functions", "classes", "function_calls", "class_methods"}

Columns(table) ==
  CASE table = "functions" ->
         {"id", "codeql_id", "database_name", "name", "file", "line",
          "num_params", "signature"}
    [] table = "classes" ->
         {"id", "codeql_id", "database_name", "name", "file", "line",
          "parent_codeql_id", "parent_id"}
    [] table = "function_calls" ->
         {"id", "database_name", "caller_codeql_id", "callee_codeql_id",
          "caller_id", "callee_id", "callee_name", "file", "line"}
    [] table = "class_methods" ->
         {"id", "database_name", "class_codeql_id", "method_codeql_id",
          "method_name", "class_id", "method_id"}

IdColumns == {"id", "parent_id", "caller_id", "callee_id", "class_id", "method_id"}

IntegerColumns == {"line", "num_params"}

NotNullColumns(table) ==
  CASE table = "functions" -> {"codeql_id", "database_name", "name", "file", "line"}
    [] table = "classes" -> {"codeql_id", "database_name", "name", "file", "line"}
    [] table = "function_calls" ->
         {"database_name", "caller_codeql_id", "callee_codeql_id", "file", "line"}
    [] table = "class_methods" ->
         {"database_name", "class_codeql_id", "method_codeql_id"}

\* tables whose codeql_id column is declared UNIQUE
UniqueCodeqlId == {"functions", "classes"}

ColumnDefault(c) ==
  IF c \in IdColumns THEN NULLID ELSE IF c = "num_params" THEN <<"0">> ELSE NULL

Digits == {"0", "1", "2", "3", "4", "5", "6", "7", "8", "9"}

IsIntegerText(v) == v # <<>> /\ \A i \in 1..Len(v) : v[i] \in Digits

EmptyDB ==
  [functions |-> {}, classes |-> {}, function_calls |-> {}, class_methods |-> {},
   seq |-> [t \in Tables |-> 1]]

TableOf(db, table) ==
  CASE table = "functions" -> db.functions
    [] table = "classes" -> db.classes
    [] table = "function_calls" -> db.function_calls
    [] table = "class_methods" -> db.class_methods

WithTable(db, table, rows, nextId) ==
  LET s == [db.seq EXCEPT ![table] = nextId]
  IN  CASE table = "functions" -> [db EXCEPT !.functions = rows, !.seq = s]
        [] table = "classes" -> [db EXCEPT !.classes = rows, !.seq = s]
        [] table = "function_calls" -> [db EXCEPT !.function_calls = rows, !.seq = s]
        [] table = "class_methods" -> [db EXCEPT !.class_methods = rows, !.seq = s]

\* position of column c in the column list of an INSERT, 0 when it is not listed
ColumnPos(actualColumns, c) ==
  IF \E j \in 1..Len(actualColumns) : actualColumns[j] = c
    THEN CHOOSE j \in 1..Len(actualColumns) : actualColumns[j] = c
    ELSE 0

NewRow(table, id, actualColumns, vals) ==
  [c \in Columns(table) |->
     IF c = "id" THEN id
     ELSE IF ColumnPos(actualColumns, c) # 0 THEN vals[ColumnPos(actualColumns, c)]
     ELSE ColumnDefault(c)]

\* the constraints one new row must meet against the rows already in the table
RowAccepted(table, rows, r) ==
  /\ \A c \in NotNullColumns(table) : r[c] # NULL
  /\ table \in UniqueCodeqlId => \A o \in rows : o.codeql_id # r.codeql_id

\* rows of one INSERT statement are added in order; the first rejected row
\* aborts the statement, which then leaves the table as it was but has drawn
\* the serial ids of the rows it had formed.
RECURSIVE InsertRows(_, _, _, _, _)
InsertRows(table, rows, nextId, actualColumns, chunks) ==
  IF chunks = <<>> THEN [ok |-> TRUE, rows |-> rows, nextId |-> nextId]
  ELSE IF Len(chunks) = 1
    THEN LET r == NewRow(table, nextId, actualColumns, chunks[1])
         IN  IF RowAccepted(table, rows, r)
               THEN [ok |-> TRUE, rows |-> rows \cup {r}, nextId |-> nextId + 1]
               ELSE [ok |-> FALSE, rows |-> rows, nextId |-> nextId + 1]
  ELSE LET first == InsertRows(table, rows, nextId, actualColumns, FirstHalf(chunks))
       IN  IF first.ok
             THEN InsertRows(table, first.rows, first.nextId, actualColumns,
                             SecondHalf(chunks))
             ELSE [ok |-> FALSE, rows |-> rows, nextId |-> first.nextId]

\* INSERT INTO table (actualColumns) VALUES ($1, ...), ... with flatValues bound
\* to the placeholders: batch.length * actualColumns.length placeholders are
\* written, and the store rejects a statement bound to another number of values.
InsertBatch(db, table, actualColumns, batch) ==
  LET n == Len(actualColumns)
      flatValues == Flat(batch)
      expectedParams == Len(batch) * n
      chunks == [k \in 1..Len(batch) |-> SubSeq(flatValues, (k - 1) * n + 1, k * n)]
      wellTyped ==
        \A k \in 1..Len(batch) : \A j \in 1..n :
          (actualColumns[j] \in IntegerColumns /\ chunks[k][j] # NULL)
            => IsIntegerText(chunks[k][j])
  IN  IF Len(flatValues) # expectedParams \/ ~wellTyped
        THEN [ok |-> FALSE, db |-> db]
        ELSE LET res == InsertRows(table, TableOf(db, table), db.seq[table],
                                   actualColumns, chunks)
             IN  [ok |-> res.ok,
                  db |-> WithTable(db, table,
                                   IF res.ok THEN res.rows ELSE TableOf(db, table),
                                   res.nextId)]

(***************************************************************************)
(* clearDatabase: five DELETE statements (the variables table is never     *)
(* written by the indexer and is left out), with the schema's ON DELETE    *)
(* actions.                                                                *)
(***************************************************************************)
DeleteClasses(db, databaseName) ==
  LET gone == {c.id : c \in {x \in db.classes : x.database_name = databaseName}}
  IN  [db EXCEPT
         !.classes = {IF c.parent_id \in gone THEN [c EXCEPT !.parent_id = NULLID] ELSE c :
                        c \in {x \in db.classes : x.database_name # databaseName}},
         !.class_methods = {cm \in db.class_methods : cm.class_id \notin gone}]

DeleteFunctions(db, databaseName) ==
  LET gone == {f.id : f \in {x \in db.functions : x.database_name = databaseName}}
  IN  [db EXCEPT
         !.functions = {f \in db.functions : f.database_name # databaseName},
         !.function_calls = {fc \in db.function_calls :
                               fc.caller_id \notin gone /\ fc.callee_id \notin gone},
         !.class_methods = {cm \in db.class_methods : cm.method_id \notin gone}]

clearDatabase(db, databaseName) ==
  LET d1 == [db EXCEPT !.class_methods =
               {cm \in db.class_methods : cm.database_name # databaseName}]
      d2 == [d1 EXCEPT !.function_calls =
               {fc \in d1.function_calls : fc.database_name # databaseName}]
      d3 == DeleteClasses(d2, databaseName)
  IN  DeleteFunctions(d3, databaseName)

(***************************************************************************)
(* updateForeignKeys: five UPDATE ... FROM statements.                     *)
(***************************************************************************)
\* id of the row of `rows` whose codeql_id is key, NULLID when there is none
\* (codeql_id is UNIQUE in functions and in classes: at most one row matches)
IdOfKey(rows, key) ==
  IF \E r \in rows : r.codeql_id = key
    THEN (CHOOSE r \in rows : r.codeql_id = key).id
    ELSE NULLID

ResolvesIn(rows, key) == \E r \in rows : r.codeql_id = key

\* UNIQUE(class_id, method_id); rows with a NULL in the pair never conflict
ClassMethodsUnique(rows) ==
  \A a, b \in rows :
    (a.id # b.id /\ a.class_id # NULLID /\ a.method_id # NULLID)
      => ~(a.class_id = b.class_id /\ a.method_id = b.method_id)

SetCallerId(db, databaseName) ==
  [db EXCEPT !.function_calls =
     {IF fc.database_name = databaseName /\ fc.caller_id = NULLID
          /\ ResolvesIn(db.functions, fc.caller_codeql_id)
        THEN [fc EXCEPT !.caller_id = IdOfKey(db.functions, fc.caller_codeql_id)]
        ELSE fc : fc \in db.function_calls}]

SetCalleeId(db, databaseName) ==
  [db EXCEPT !.function_calls =
     {IF fc.database_name = databaseName /\ fc.callee_id = NULLID
          /\ ResolvesIn(db.functions, fc.callee_codeql_id)
        THEN [fc EXCEPT !.callee_id = IdOfKey(db.functions, fc.callee_codeql_id)]
        ELSE fc : fc \in db.function_calls}]

SetParentId(db, databaseName) ==
  [db EXCEPT !.classes =
     {IF c.database_name = databaseName /\ c.parent_id = NULLID
          /\ ResolvesIn(db.classes, c.parent_codeql_id)
        THEN [c EXCEPT !.parent_id = IdOfKey(db.classes, c.parent_codeql_id)]
        ELSE c : c \in db.classes}]

SetClassId(db, databaseName) ==
  [db EXCEPT !.class_methods =
     {IF cm.database_name = databaseName /\ cm.class_id = NULLID
          /\ ResolvesIn(db.classes, cm.class_codeql_id)
        THEN [cm EXCEPT !.class_id = IdOfKey(db.classes, cm.class_codeql_id)]
        ELSE cm : cm \in db.class_methods}]

SetMethodId(db, databaseName) ==
  [db EXCEPT !.class_methods =
     {IF cm.database_name = databaseName /\ cm.method_id = NULLID
          /\ ResolvesIn(db.functions, cm.method_codeql_id)
        THEN [cm EXCEPT !.method_id = IdOfKey(db.functions, cm.method_codeql_id)]
        ELSE cm : cm \in db.class_methods}]

\* the statements run in order, each committed on its own; one that violates
\* UNIQUE(class_id, method_id) changes nothing and throws, ending the pass
updateForeignKeys(db, databaseName) ==
  LET d1 == SetCallerId(db, databaseName)
      d2 == SetCalleeId(d1, databaseName)
      d3 == SetParentId(d2, databaseName)
      d4 == SetClassId(d3, databaseName)
      d5 == SetMethodId(d4, databaseName)
  IN  IF ~ClassMethodsUnique(d4.class_methods) THEN [ok |-> FALSE, db |-> d3]
      ELSE IF ~ClassMethodsUnique(d5.class_methods) THEN [ok |-> FALSE, db |-> d4]
      ELSE [ok |-> TRUE, db |-> d5]

(***************************************************************************)
(* handleBuildGraphIndex.  The outcome of the external extraction          *)
(* (codeql query run, bqrs decode) for one corpus is a record ext that     *)
(* gives, for every extraction, whether its query file is present and the  *)
(* lines of the decoded CSV file, header line first.                       *)
(***************************************************************************)
extractions ==
  << [query |-> "extract-functions.ql", table |-> "functions",
      columns |-> <<"codeql_id", "name", "file", "line", "num_params", "signature">>,
      required |-> TRUE, processRow |-> FALSE],
     [query |-> "extract-calls.ql", table |-> "function_calls",
      columns |-> <<"caller_codeql_id", "callee_codeql_id", "file", "line">>,
      required |-> FALSE, processRow |-> TRUE],
     [query |-> "extract-classes.ql", table |-> "classes",
      columns |-> <<"codeql_id", "name", "file", "line", "parent_codeql_id">>,
      required |-> FALSE, processRow |-> FALSE],
     [query |-> "extract-methods.ql", table |-> "class_methods",
      columns |-> <<"class_codeql_id", "method_codeql_id", "method_name">>,
      required |-> FALSE, processRow |-> FALSE] >>

maxParams == 8000

actualColumnsOf(x) ==
  IF x.processRow THEN <<"database_name">> \o x.columns \o <<"callee_name">>
  ELSE <<"database_name">> \o x.columns

\* the row loop without the seenIds test: every non-blank line is kept
RECURSIVE rowLoop_KeepsRepeats(_, _, _, _)
rowLoop_KeepsRepeats(x, database_name, dataLines, acc) ==
  IF dataLines = <<>> THEN acc
  ELSE LET line == Head(dataLines)
           parts == partsOf(line)
           rowData == IF x.processRow THEN processRow(parts) ELSE parts
           row == <<database_name>> \o rowData
       IN  IF Trim(line) = <<>>
             THEN rowLoop_KeepsRepeats(x, database_name, Tail(dataLines), acc)
             ELSE rowLoop_KeepsRepeats(x, database_name, Tail(dataLines),
                                       [acc EXCEPT !.values = Append(@, row)])

\* the row loop that drops a repeated key without counting it
RECURSIVE rowLoop_DropsUncounted(_, _, _, _)
rowLoop_DropsUncounted(x, database_name, dataLines, acc) ==
  IF dataLines = <<>> THEN acc
  ELSE LET line == Head(dataLines)
           parts == partsOf(line)
           uniqueId == parts[1]
           rowData == IF x.processRow THEN processRow(parts) ELSE parts
           row == <<database_name>> \o rowData
       IN  IF Trim(line) = <<>> \/ (uniqueId # NULL /\ uniqueId \in acc.seenIds)
             THEN rowLoop_DropsUncounted(x, database_name, Tail(dataLines), acc)
             ELSE rowLoop_DropsUncounted(x, database_name, Tail(dataLines),
                    [acc EXCEPT !.values = Append(@, row),
                                !.seenIds = IF uniqueId # NULL THEN @ \cup {uniqueId}
                                            ELSE @])

\* one pass of the row loop: a blank line is passed over, a line whose first
\* field was seen is counted as a duplicate, any other line is pushed to values
rowStep(x, database_name, line, acc) ==
  LET parts == partsOf(line)
      uniqueId == parts[1]
      rowData == IF x.processRow THEN processRow(parts) ELSE parts
      row == <<database_name>> \o rowData
  IN  IF Trim(line) = <<>> THEN acc
      ELSE IF uniqueId # NULL /\ uniqueId \in acc.seenIds
        THEN [acc EXCEPT !.skippedDuplicates = @ + 1]
      ELSE [acc EXCEPT !.values = Append(@, row),
                       !.seenIds = IF uniqueId # NULL THEN @ \cup {uniqueId} ELSE @]

\* the row loop: values, seenIds and skippedDuplicates after the data lines,
\* taken in their order, the first half of them before the second
RECURSIVE rowLoop(_, _, _, _)
rowLoop(x, database_name, dataLines, acc) ==
  IF dataLines = <<>> THEN acc
  ELSE IF Len(dataLines) = 1 THEN rowStep(x, database_name, dataLines[1], acc)
  ELSE LET first == rowLoop(x, database_name, FirstHalf(dataLines), acc)
       IN  IF Len(first.values) < Len(acc.values) THEN acc
           ELSE rowLoop(x, database_name, SecondHalf(dataLines), first)

\* for (let i = 0; i < values.length; i += batchSize): one INSERT per slice,
\* the first failing INSERT throws
RECURSIVE batchLoop(_, _, _, _, _, _)
batchLoop(db, table, actualColumns, values, batchSize, i) ==
  IF i >= Len(values) THEN [ok |-> TRUE, db |-> db]
  ELSE LET hi == IF i + batchSize < Len(values) THEN i + batchSize ELSE Len(values)
           batch == SubSeq(values, i + 1, hi)
           res == InsertBatch(db, table, actualColumns, batch)
       IN  IF res.ok
             THEN batchLoop(res.db, table, actualColumns, values, batchSize, i + batchSize)
             ELSE [ok |-> FALSE, db |-> res.db]

NoStats == [t \in Tables |-> -1]

\* lines.slice(1): the lines after the header
dataLinesOf(file) == IF file.lines = <<>> THEN <<>> ELSE Tail(file.lines)

\* stats[table] = values.length after the batch loop, or the throw of its
\* failing INSERT
statsAfter(run, table, acc, ins) ==
  IF ~ins.ok
    THEN [run EXCEPT !.ok = FALSE, !.db = ins.db,
                     !.skipped[table] = acc.skippedDuplicates]
    ELSE [run EXCEPT !.db = ins.db,
                     !.stats[table] = Len(acc.values),
                     !.skipped[table] = acc.skippedDuplicates]

\* if (values.length > 0): batchSize = floor(maxParams / actualColumns.length)
\* and the batch loop
insertValues(run, table, actualColumns, acc) ==
  statsAfter(run, table, acc,
             IF Len(acc.values) > 0
               THEN batchLoop(run.db, table, actualColumns, acc.values,
                              maxParams \div Len(actualColumns), 0)
               ELSE [ok |-> TRUE, db |-> run.db])

\* the pass that skips a missing query file whether or not it is required
extraction_SkipsRequired(run, database_name, file, x) ==
  IF ~file.present
    THEN [run EXCEPT !.stats[x.table] = 0]
    ELSE insertValues(run, x.table, actualColumnsOf(x),
                      rowLoop(x, database_name, dataLinesOf(file),
                              [values |-> <<>>, seenIds |-> {},
                               skippedDuplicates |-> 0]))

\* one pass of the loop over the extractions: a missing query file throws when
\* the extraction is required and else leaves stats[table] = 0
extraction(run, database_name, file, x) ==
  IF ~file.present
    THEN IF x.required THEN [run EXCEPT !.ok = FALSE]
                       ELSE [run EXCEPT !.stats[x.table] = 0]
    ELSE insertValues(run, x.table, actualColumnsOf(x),
                      rowLoop(x, database_name, dataLinesOf(file),
                              [values |-> <<>>, seenIds |-> {},
                               skippedDuplicates |-> 0]))

\* for (const {query, table, columns, required, processRow} of extractions),
\* left at the first throw
RECURSIVE extractionLoop(_, _, _, _)
extractionLoop(run, database_name, ext, k) ==
  IF k > Len(extractions) \/ ~run.ok THEN run
  ELSE extractionLoop(extraction(run, database_name, ext[extractions[k].table],
                                 extractions[k]),
                      database_name, ext, k + 1)

\* after the loop: await postgres.updateForeignKeys(database_name)
resolveRun(run, database_name) ==
  IF ~run.ok THEN run
  ELSE LET fk == updateForeignKeys(run.db, database_name)
       IN  [run EXCEPT !.ok = fk.ok, !.db = fk.db]

\* clear, extract and ingest every fact type, then resolve; ok is FALSE when
\* the handler throws "Failed to build graph index"
handleBuildGraphIndex(db, database_name, ext) ==
  resolveRun(extractionLoop([ok |-> TRUE, db |-> clearDatabase(db, database_name),
                             stats |-> NoStats, skipped |-> [t \in Tables |-> 0]],
                            database_name, ext, 1),
             database_name)

(***************************************************************************)
(* The graph queries.  A query result is the list of rows the statement    *)
(* returns; where SQL leaves the order or the choice of rows open, the     *)
(* operator gives the set of the results the store may return.             *)
(***************************************************************************)
CallersLimit == 200
HierarchyLevelCap == 10
MethodsShown == 5

\* handleFindCallers: one row for every call edge of the corpus that joins a
\* caller function and matches the name by its callee function or callee_name;
\* edge is the id of the joined function_calls row
\* the rows of the join with the callee joined on its name as well
CallerRows_JoinsByName(db, database_name, function_name) ==
  UNION {UNION {{[edge |-> fc.id, callee |-> callee, caller_name |-> caller.name,
                  caller_file |-> caller.file, call_line |-> fc.line,
                  call_type |-> IF fc.callee_id # NULLID THEN "resolved"
                                ELSE "unresolved"] :
                   callee \in {k \in {f.id : f \in {g \in db.functions :
                                                       \/ g.id = fc.callee_id
                                                       \/ g.name = fc.callee_name}}
                                      \cup {NULLID} :
                                 /\ k = NULLID =>
                                      ~\E g \in db.functions :
                                         g.id = fc.callee_id \/ g.name = fc.callee_name
                                 /\ \/ \E g \in db.functions :
                                         g.id = k /\ g.name = function_name
                                    \/ fc.callee_name = function_name}} :
                  caller \in {f \in db.functions : f.id = fc.caller_id}} :
           fc \in {e \in db.function_calls : e.database_name = database_name}}

\* one row for every combination of a call edge of the corpus, the function
\* joined as its caller and the function joined as its callee (NULLID when the
\* LEFT JOIN finds none) that passes the WHERE clause
CallerRows(db, database_name, function_name) ==
  UNION {UNION {{[edge |-> fc.id, callee |-> callee, caller_name |-> caller.name,
                  caller_file |-> caller.file, call_line |-> fc.line,
                  call_type |-> IF fc.callee_id # NULLID THEN "resolved"
                                ELSE "unresolved"] :
                   callee \in {k \in {f.id : f \in {g \in db.functions :
                                                       g.id = fc.callee_id}}
                                      \cup {NULLID} :
                                 /\ k = NULLID =>
                                      ~\E g \in db.functions : g.id = fc.callee_id
                                 /\ \/ \E g \in db.functions :
                                         g.id = k /\ g.name = function_name
                                    \/ fc.callee_name = function_name}} :
                  caller \in {f \in db.functions : f.id = fc.caller_id}} :
           fc \in {e \in db.function_calls : e.database_name = database_name}}

\* LIMIT 200 keeps all rows of a smaller result and some 200 rows of a larger one
handleFindCallers(db, database_name, function_name) ==
  LET rows == CallerRows(db, database_name, function_name)
  IN  IF Cardinality(rows) <= CallersLimit THEN {rows}
      ELSE {S \in SUBSET rows : Cardinality(S) = CallersLimit}

\* the recursive term with the depth test off by one (cc.depth <= max_depth)
ChainStep_DepthOffByOne(db, database_name, level, max_depth) ==
  UNION {{[id |-> callee.id, name |-> callee.name,
           path |-> Append(cc.path, callee.name), depth |-> cc.depth + 1] :
            callee \in {f \in db.functions :
                          /\ \E fc \in db.function_calls :
                               /\ fc.caller_id = cc.id
                               /\ (f.id = fc.callee_id \/ f.name = fc.callee_name)
                          /\ f.database_name = database_name
                          /\ f.name \notin Range(cc.path)}} :
           cc \in {r \in level : r.depth <= max_depth}}

\* handleFindCallChain: the rows the recursive term adds to those of one depth
\* the recursive term without the test of the name against the path
ChainStep_AllowsRepeats(db, database_name, level, max_depth) ==
  UNION {{[id |-> callee.id, name |-> callee.name,
           path |-> Append(cc.path, callee.name), depth |-> cc.depth + 1] :
            callee \in {f \in db.functions :
                          /\ \E fc \in db.function_calls :
                               /\ fc.caller_id = cc.id
                               /\ (f.id = fc.callee_id \/ f.name = fc.callee_name)
                          /\ f.database_name = database_name}} :
           cc \in {r \in level : r.depth < max_depth}}

ChainStep(db, database_name, level, max_depth) ==
  UNION {{[id |-> callee.id, name |-> callee.name,
           path |-> Append(cc.path, callee.name), depth |-> cc.depth + 1] :
            callee \in {f \in db.functions :
                          /\ \E fc \in db.function_calls :
                               /\ fc.caller_id = cc.id
                               /\ (f.id = fc.callee_id \/ f.name = fc.callee_name)
                          /\ f.database_name = database_name
                          /\ f.name \notin Range(cc.path)}} :
           cc \in {r \in level : r.depth < max_depth}}

RECURSIVE ChainFrom(_, _, _, _)
ChainFrom(db, database_name, level, max_depth) ==
  IF level = {} THEN {}
  ELSE level \cup ChainFrom(db, database_name,
                            ChainStep(db, database_name, level, max_depth), max_depth)

\* the non-recursive term: the functions of the corpus named from_function
ChainStart(db, database_name, from_function) ==
  {[id |-> f.id, name |-> f.name, path |-> <<f.name>>, depth |-> 0] :
     f \in {g \in db.functions :
              g.name = from_function /\ g.database_name = database_name}}

call_chain(db, database_name, from_function, max_depth) ==
  ChainFrom(db, database_name, ChainStart(db, database_name, from_function), max_depth)

\* WHERE name = $2 ORDER BY depth LIMIT 1: any row of least depth; the empty
\* result is the "No call chain found" answer
ChainAnswer(rows, to_function) ==
  LET hits == {r \in rows : r.name = to_function}
      first == {r \in hits : \A o \in hits : r.depth <= o.depth}
  IN  IF hits = {} THEN {[found |-> FALSE]}
      ELSE {[found |-> TRUE, path |-> r.path, depth |-> r.depth] : r \in first}

handleFindCallChain(db, database_name, from_function, to_function, max_depth) ==
  ChainAnswer(call_chain(db, database_name, from_function, max_depth), to_function)

\* handleGetClassHierarchy: the rows of class_hierarchy; start is the id of the
\* class of the non-recursive term a row descends from
\* the recursive term with the level filter one too wide (ch.level <= 10)
HierarchyStep_CapOffByOne(db, level) ==
  UNION {{[start |-> ch.start, id |-> c.id, name |-> c.name,
           parent_id |-> c.parent_id, level |-> ch.level + 1] :
            c \in {k \in db.classes : k.id = ch.parent_id}} :
           ch \in {r \in level : r.level <= HierarchyLevelCap}}

\* the recursive term: the classes the rows of the working table name as
\* parent, for the rows below the level cap
HierarchyStep(db, level) ==
  UNION {{[start |-> ch.start, id |-> c.id, name |-> c.name,
           parent_id |-> c.parent_id, level |-> ch.level + 1] :
            c \in {k \in db.classes : k.id = ch.parent_id}} :
           ch \in {r \in level : r.level < HierarchyLevelCap}}

\* the non-recursive term: the classes of the corpus with the name
HierarchyStart(db, database_name, class_name) ==
  {[start |-> c.id, id |-> c.id, name |-> c.name, parent_id |-> c.parent_id,
    level |-> 0] :
     c \in {k \in db.classes : k.name = class_name /\ k.database_name = database_name}}

RECURSIVE HierarchyFrom(_, _)
HierarchyFrom(db, level) ==
  IF level = {} THEN {}
  ELSE level \cup HierarchyFrom(db, HierarchyStep(db, level))

class_hierarchy(db, database_name, class_name) ==
  HierarchyFrom(db, HierarchyStart(db, database_name, class_name))

\* ORDER BY level DESC: every order of the rows in which the level never rises
RECURSIVE LevelOrders(_)
LevelOrders(rows) ==
  IF rows = {} THEN {<<>>}
  ELSE UNION {{<<r>> \o rest : rest \in LevelOrders(rows \ {r})} :
                r \in {x \in rows : \A o \in rows : x.level >= o.level}}

\* methodsByClass[name]: one entry <<membership id, method name>> for every
\* class_methods row joined to a listed class of that name and to a function
methodsByClass(db, classIds, name) ==
  UNION {{<<cm.id, f.name>> : f \in {g \in db.functions : g.id = cm.method_id}} :
           cm \in {m \in db.class_methods :
                     \E c \in db.classes :
                       c.id = m.class_id /\ c.id \in classIds /\ c.name = name}}

\* the lines of the answer: class name and its methods; the text shows the
\* first MethodsShown method names and "..." when there are more
HierarchyAnswer(db, rows) ==
  LET classIds == {r.id : r \in rows}
  IN  {[i \in 1..Len(ord) |->
          LET methods == methodsByClass(db, classIds, ord[i].name)
          IN  [id |-> ord[i].id, name |-> ord[i].name, parent_id |-> ord[i].parent_id,
               methods |-> methods,
               shown |-> IF Cardinality(methods) > MethodsShown THEN MethodsShown
                         ELSE Cardinality(methods),
               more |-> Cardinality(methods) > MethodsShown]] :
         ord \in LevelOrders(rows)}

handleGetClassHierarchy(db, database_name, class_name) ==
  HierarchyAnswer(db, class_hierarchy(db, database_name, class_name))

(***************************************************************************)
(* handleFindFunctionFast: name % $2 and similarity(name, $2) are the      *)
(* trigram operators of PostgreSQL's pg_trgm extension, which the schema   *)
(* installs.  A text is put in lower case and cut into its words, the      *)
(* maximal runs of letters and digits; a word is padded with two blanks    *)
(* in front and one behind; the similarity of two texts is the share of    *)
(* their common trigrams among all their trigrams, 0 when a text has none. *)
(***************************************************************************)
UpperCase == <<"A", "B", "C", "D">>
LowerCase == <<"a", "b", "c", "d">>

ToLower(ch) ==
  IF \E i \in 1..Len(UpperCase) : UpperCase[i] = ch
    THEN LowerCase[CHOOSE i \in 1..Len(UpperCase) : UpperCase[i] = ch]
    ELSE ch

IsAlnum(ch) == ch \in Range(UpperCase) \cup Range(LowerCase) \cup Digits

\* the words of s from position i on; word is the run of letters and digits read
RECURSIVE WordsFrom(_, _, _)
WordsFrom(s, i, word) ==
  IF i > Len(s) THEN (IF word = <<>> THEN {} ELSE {word})
  ELSE IF IsAlnum(s[i]) THEN WordsFrom(s, i + 1, Append(word, ToLower(s[i])))
  ELSE (IF word = <<>> THEN {} ELSE {word}) \cup WordsFrom(s, i + 1, <<>>)

Padded(word) == <<" ", " ">> \o word \o <<" ">>

Trigrams(s) ==
  UNION {{SubSeq(Padded(w), i, i + 2) : i \in 1..(Len(w) + 1)} : w \in WordsFrom(s, 1, <<>>)}

\* the share of the common trigrams among all trigrams as the fraction
\* <<common, all>>
Share(ta, tb) ==
  IF ta = {} \/ tb = {} THEN <<0, 1>>
  ELSE <<Cardinality(ta \cap tb), Cardinality(ta \cup tb)>>

similarity(a, b) == Share(Trigrams(a), Trigrams(b))

\* pg_trgm.similarity_threshold, 0.3 unless the session sets it
ThresholdTenths == 3

\* sim is at least the threshold
AtThreshold(sim) == sim[1] * 10 >= ThresholdTenths * sim[2]

\* a % b
SimilarTo(a, b) == AtThreshold(similarity(a, b))

\* fraction p is greater than fraction q
FractionGreater(p, q) == p[1] * q[2] > q[1] * p[2]

\* the order of the characters in the collation of the name column
Collation == <<" ", "$", "_", "0", "1", "2", "3", "4", "5", "6", "7", "8", "9",
               "a", "b", "c", "d">>

CharRank(ch) == CHOOSE i \in 1..Len(Collation) : Collation[i] = ch

\* text a sorts before text b
RECURSIVE TextLess(_, _)
TextLess(a, b) ==
  IF b = <<>> THEN FALSE
  ELSE IF a = <<>> THEN TRUE
  ELSE IF Head(a) = Head(b) THEN TextLess(Tail(a), Tail(b))
  ELSE CharRank(Head(a)) < CharRank(Head(b))

\* the functions of the corpus, each with similarity(name, $2)
Scored(db, database_name, pattern) ==
  {[row |-> f, sim |-> similarity(f.name, pattern)] :
     f \in {g \in db.functions : g.database_name = database_name}}

\* ORDER BY similarity(name, $2) DESC, name: x may not come after y
RanksBefore(x, y) ==
  \/ FractionGreater(x.sim, y.sim)
  \/ /\ ~FractionGreater(y.sim, x.sim)
     /\ ~TextLess(y.row.name, x.row.name)

\* every order of the scored rows that ORDER BY allows
RECURSIVE SearchOrders(_)
SearchOrders(scored) ==
  IF scored = {} THEN {<<>>}
  ELSE UNION {{<<r>> \o rest : rest \in SearchOrders(scored \ {r})} :
                r \in {x \in scored : \A o \in scored : RanksBefore(x, o)}}

DefaultLimit == 50

\* the rows of the answer: name, file, line, num_params, signature of at most
\* limit functions of the corpus whose name is similar to the pattern (name % $2)
handleFindFunctionFast(db, database_name, function_name, limit) ==
  {[i \in 1..(IF Len(ord) < limit THEN Len(ord) ELSE limit) |->
      [name |-> ord[i].row.name, file |-> ord[i].row.file, line |-> ord[i].row.line,
       num_params |-> ord[i].row.num_params, signature |-> ord[i].row.signature]] :
     ord \in SearchOrders({x \in Scored(db, database_name, function_name) :
                             AtThreshold(x.sim)})}

(***************************************************************************)
(* handleQueryGraphStats: the row counts of getDatabaseStats and the hot   *)
(* spots query.                                                            *)
(***************************************************************************)
HotSpotsLimit == 10

\* SELECT COUNT(*) FROM <table> WHERE database_name = $1 for every table (the
\* variables table is never written by the indexer: its count is 0)
getDatabaseStats(db, databaseName) ==
  [functions |-> Cardinality({r \in db.functions : r.database_name = databaseName}),
   classes |-> Cardinality({r \in db.classes : r.database_name = databaseName}),
   calls |-> Cardinality({r \in db.function_calls : r.database_name = databaseName}),
   methods |-> Cardinality({r \in db.class_methods : r.database_name = databaseName}),
   variables |-> 0]

\* functions f JOIN function_calls fc ON fc.callee_id = f.id, grouped by f.id:
\* COUNT(fc.id) and COUNT(DISTINCT fc.caller_id), which leaves NULLs out;
\* function is the id of the grouped functions row
HotSpotRows(db, database_name) ==
  {row \in {[function |-> f.id, name |-> f.name, file |-> f.file,
             call_count |-> Cardinality({fc \in db.function_calls : fc.callee_id = f.id}),
             unique_callers |->
               Cardinality({fc.caller_id : fc \in {e \in db.function_calls :
                                                     e.callee_id = f.id}} \ {NULLID})] :
              f \in {g \in db.functions : g.database_name = database_name}} :
     row.call_count > 1}

\* ORDER BY call_count DESC: every order in which the count never rises
RECURSIVE CountOrders(_)
CountOrders(rows) ==
  IF rows = {} THEN {<<>>}
  ELSE UNION {{<<r>> \o rest : rest \in CountOrders(rows \ {r})} :
                r \in {x \in rows : \A o \in rows : x.call_count >= o.call_count}}

\* the statistics and the first HotSpotsLimit rows of the hot spots
handleQueryGraphStats(db, database_name) ==
  {[stats |-> getDatabaseStats(db, database_name),
    hotSpots |-> SubSeq(ord, 1, IF Len(ord) < HotSpotsLimit THEN Len(ord)
                                ELSE HotSpotsLimit)] :
     ord \in CountOrders(HotSpotRows(db, database_name))}

(***************************************************************************)
(* Extraction outcomes the model draws from.                               *)
(***************************************************************************)
DbA == <<"A">>
DbB == <<"B">>

Header == <<"h">>
FileA == <<"a">>

FunLine(key, name) == JoinComma(<<key, name, FileA, <<"1">>, <<"0">>, <<"s">>>>)
CallLine(callerKey, calleeRef, line) == JoinComma(<<callerKey, calleeRef, FileA, line>>)
ClassLine(key, name, parentRef) == JoinComma(<<key, name, FileA, <<"1">>, parentRef>>)
MethodLine(classKey, methodKey, name) == JoinComma(<<classKey, methodKey, name>>)

CsvFile(dataLines) == [present |-> TRUE, lines |-> <<Header>> \o dataLines]
NoQueryFile == [present |-> FALSE, lines |-> <<>>]

\* all sequences over S of length at most n
RECURSIVE SeqsUpTo(_, _)
SeqsUpTo(S, n) ==
  IF n = 0 THEN {<<>>}
  ELSE LET shorter == SeqsUpTo(S, n - 1)
       IN  shorter \cup {Append(q, e) : q \in {r \in shorter : Len(r) = n - 1}, e \in S}

\* natural keys and references of the form <repr>@<file>:<line>
KeyP == <<"p", "@", "a", ":", "1">>
KeyG == <<"g", "@", "a", ":", "2">>
KeyC == <<"C", "@", "a", ":", "3">>
KeyD == <<"D", "@", "a", ":", "4">>

\* two corpora whose extractions may name the same functions and classes
Corpora == {DbA, DbB}

\* what the extraction finds besides functions: nothing, a call with a class
\* and its method, or the call and the method without the class
RelationLines ==
  {<< <<>>, <<>>, <<>> >>,
   << <<CallLine(KeyG, KeyP, <<"7">>)>>, <<ClassLine(KeyC, <<"C">>, <<>>)>>,
      <<MethodLine(KeyC, KeyP, <<"m">>)>> >>,
   << <<CallLine(KeyG, KeyP, <<"7">>)>>, <<>>, <<MethodLine(KeyC, KeyP, <<"m">>)>> >>}

ExtCorpora ==
  {[functions |-> CsvFile(fl), function_calls |-> CsvFile(rel[1]),
    classes |-> CsvFile(rel[2]), class_methods |-> CsvFile(rel[3])] :
     fl \in {<<FunLine(KeyP, <<"f">>)>>, <<FunLine(KeyG, <<"g">>)>>},
     rel \in RelationLines}

\* one corpus whose extraction repeats facts, leaves lines blank or omits a key:
\* one file varies over the sequences of at most MaxRows of its lines while
\* the other files hold their base lines
Blank == <<" ">>
UnresolvedG == UnresolvedPrefix \o <<"g", "@", "a", ":", "8">>

FunLinesU == {FunLine(KeyP, <<"f">>), FunLine(KeyG, <<"g">>)}
CallLinesU ==
  {CallLine(KeyP, KeyG, <<"7">>), CallLine(KeyP, KeyP, <<"8">>),
   CallLine(KeyG, UnresolvedG, <<"8">>), Blank}
ClassLinesU == {ClassLine(KeyC, <<"C">>, <<>>), ClassLine(<<>>, <<"D">>, <<>>)}
MethodLinesU == {MethodLine(KeyC, KeyP, <<"m">>), MethodLine(KeyC, KeyG, <<"n">>)}

BaseLines ==
  [functions |-> <<FunLine(KeyP, <<"f">>), FunLine(KeyG, <<"g">>)>>,
   function_calls |-> <<CallLine(KeyP, KeyG, <<"7">>)>>,
   classes |-> <<ClassLine(KeyC, <<"C">>, <<>>)>>,
   class_methods |-> <<MethodLine(KeyC, KeyP, <<"m">>)>>]

ExtOfLines(l) ==
  [functions |-> CsvFile(l.functions), function_calls |-> CsvFile(l.function_calls),
   classes |-> CsvFile(l.classes), class_methods |-> CsvFile(l.class_methods)]

ExtIngest ==
  {ExtOfLines([BaseLines EXCEPT !.functions = q]) : q \in SeqsUpTo(FunLinesU, MaxRows)}
    \cup {ExtOfLines([BaseLines EXCEPT !.function_calls = q]) :
            q \in SeqsUpTo(CallLinesU, MaxRows)}
    \cup {ExtOfLines([BaseLines EXCEPT !.classes = q]) : q \in SeqsUpTo(ClassLinesU, MaxRows)}
    \cup {ExtOfLines([BaseLines EXCEPT !.class_methods = q]) :
            q \in SeqsUpTo(MethodLinesU, MaxRows)}

\* one corpus with a call graph and a class hierarchy for the queries:
\* functions a (key p), x (key q), x (key r) and t (key t); every caller has at
\* most one call line; classes B, D (parent B), a second D or B, and S which
\* names itself as parent
KeyQ == <<"q", "@", "a", ":", "5">>
KeyR == <<"r", "@", "a", ":", "6">>
KeyT == <<"t", "@", "a", ":", "7">>
KeyZ == <<"z", "@", "a", ":", "8">>
KeyE == <<"E", "@", "a", ":", "9">>
UnresolvedX == UnresolvedPrefix \o <<"x", "@", "a", ":", "8">>
UnresolvedT == UnresolvedPrefix \o <<"t", "@", "a", ":", "8">>

QueryFunLines ==
  <<FunLine(KeyP, <<"a">>), FunLine(KeyQ, <<"x">>), FunLine(KeyR, <<"x">>),
    FunLine(KeyT, <<"t">>)>>

QueryCallLines ==
  {c1 \o c2 \o c3 \o c4 \o c5 :
     c1 \in {<<>>, <<CallLine(KeyP, KeyQ, <<"1">>)>>, <<CallLine(KeyP, UnresolvedX, <<"1">>)>>},
     c2 \in {<<CallLine(KeyQ, KeyR, <<"2">>)>>, <<CallLine(KeyQ, KeyT, <<"2">>)>>},
     c3 \in {<<>>, <<CallLine(KeyR, KeyT, <<"3">>)>>},
     c4 \in {<<>>, <<CallLine(KeyT, KeyP, <<"4">>)>>},
     c5 \in {<<>>, <<CallLine(KeyZ, UnresolvedT, <<"5">>)>>}}

QueryClassLines ==
  {<<ClassLine(KeyC, <<"B">>, <<>>), ClassLine(KeyD, <<"D">>, KeyC)>>,
   <<ClassLine(KeyC, <<"B">>, <<>>), ClassLine(KeyD, <<"D">>, KeyC),
     ClassLine(KeyE, <<"D">>, KeyC)>>,
   <<ClassLine(KeyC, <<"B">>, <<>>), ClassLine(KeyD, <<"D">>, KeyC),
     ClassLine(KeyE, <<"S">>, KeyE)>>,
   <<ClassLine(KeyC, <<"B">>, <<>>), ClassLine(KeyD, <<"B">>, KeyC)>>}

QueryMethodLines ==
  {<<>>,
   <<MethodLine(KeyC, KeyP, <<"init">>), MethodLine(KeyD, KeyT, <<"run">>)>>,
   <<MethodLine(KeyC, KeyP, <<"init">>), MethodLine(KeyD, KeyZ, <<"run">>)>>}

BaseQueryCalls == <<CallLine(KeyP, KeyQ, <<"1">>), CallLine(KeyQ, KeyT, <<"2">>)>>
BaseQueryClasses == <<ClassLine(KeyC, <<"B">>, <<>>), ClassLine(KeyD, <<"D">>, KeyC)>>
BaseQueryMethods ==
  <<MethodLine(KeyC, KeyP, <<"init">>), MethodLine(KeyD, KeyT, <<"run">>)>>

ExtQuery ==
  {ExtOfLines([functions |-> QueryFunLines, function_calls |-> cl,
               classes |-> BaseQueryClasses, class_methods |-> BaseQueryMethods]) :
     cl \in QueryCallLines}
    \cup {ExtOfLines([functions |-> QueryFunLines, function_calls |-> BaseQueryCalls,
                      classes |-> kl, class_methods |-> ml]) :
            kl \in QueryClassLines, ml \in QueryMethodLines}

\* one corpus whose extraction lacks query files or decodes to lines with a
\* field too few or too many
MaxFaultBuilds == 2

ExtMissing ==
  {[t \in Tables |-> IF t \in present THEN CsvFile(BaseLines[t]) ELSE NoQueryFile] :
     present \in SUBSET Tables}

ShortFunLine == JoinComma(<<KeyG, <<"g">>, FileA, <<"2">>, <<"0">>>>)
LongFunLine == JoinComma(<<KeyG, <<"g">>, FileA, <<"2">>, <<"0">>, <<"s">>, <<"x">>>>)
ShortCallLine == JoinComma(<<KeyG, KeyP, FileA>>)
LongCallLine == JoinComma(<<KeyG, KeyP, FileA, <<"9">>, <<"x">>>>)
ShortMethodLine == JoinComma(<<KeyD, KeyG>>)
LongMethodLine == JoinComma(<<KeyC, KeyP, <<"m">>, <<"x">>>>)

MalformedLines ==
  {[BaseLines EXCEPT ![t] = q] :
     t \in {"functions"},
     q \in {<<FunLine(KeyP, <<"f">>), ShortFunLine>>,
            <<ShortFunLine, FunLine(KeyP, <<"f">>)>>,
            <<FunLine(KeyP, <<"f">>), LongFunLine>>,
            <<ShortFunLine, FunLine(KeyP, <<"f">>), LongFunLine>>}}
    \cup {[BaseLines EXCEPT ![t] = q] :
            t \in {"function_calls"},
            q \in {<<CallLine(KeyP, KeyG, <<"7">>), ShortCallLine>>,
                   <<LongCallLine, CallLine(KeyP, KeyG, <<"7">>)>>}}
    \cup {[BaseLines EXCEPT ![t] = q] :
            t \in {"class_methods"},
            q \in {<<MethodLine(KeyC, KeyP, <<"m">>), ShortMethodLine>>,
                   <<LongMethodLine>>,
                   <<LongMethodLine, ShortMethodLine>>}}

ExtMalformed == {ExtOfLines(l) : l \in MalformedLines}

ExtFaults == ExtMissing \cup ExtMalformed

\* one corpus whose call graph has self-calls and cycles: functions a (key p),
\* x (key q), x (key r) and t (key t)
ChainCallLines ==
  {c1 \o c2 \o c3 \o c4 :
     c1 \in {<<CallLine(KeyP, KeyP, <<"1">>)>>, <<CallLine(KeyP, KeyQ, <<"1">>)>>,
             <<CallLine(KeyP, UnresolvedX, <<"1">>)>>},
     c2 \in {<<CallLine(KeyQ, KeyQ, <<"2">>)>>, <<CallLine(KeyQ, KeyT, <<"2">>)>>,
             <<CallLine(KeyQ, KeyP, <<"2">>)>>},
     c3 \in {<<>>, <<CallLine(KeyR, KeyP, <<"3">>)>>},
     c4 \in {<<>>, <<CallLine(KeyT, KeyP, <<"4">>)>>,
             <<CallLine(KeyT, UnresolvedX, <<"4">>)>>}}

ExtChain ==
  {ExtOfLines([functions |-> QueryFunLines, function_calls |-> cl,
               classes |-> BaseQueryClasses, class_methods |-> BaseQueryMethods]) :
     cl \in ChainCallLines}

ChainDepthArgs == {0, 2, MaxDepthArg}

\* two analysis databases for corpus A (before and after a change of the
\* code) and one for corpus B, whose keys differ from those of A; the language
\* of the three has queries for functions and calls only
MaxConcurrentBuilds == 2

ExtOfCalls(funLines, callLines) ==
  [functions |-> CsvFile(funLines), function_calls |-> CsvFile(callLines),
   classes |-> NoQueryFile, class_methods |-> NoQueryFile]

ConcurrentBuilds ==
  {<<DbA, ExtOfCalls(<<FunLine(KeyP, <<"f">>)>>, <<CallLine(KeyP, KeyP, <<"7">>)>>)>>,
   <<DbA, ExtOfCalls(<<FunLine(KeyP, <<"f">>), FunLine(KeyG, <<"g">>)>>,
                     <<CallLine(KeyG, KeyP, <<"8">>)>>)>>,
   <<DbB, ExtOfCalls(<<FunLine(KeyQ, <<"x">>)>>, <<CallLine(KeyQ, KeyQ, <<"9">>)>>)>>}

\* one corpus with one function more than a batch of the functions INSERT
\* holds; the last function has no name
MaxBatchBuilds == 2

RECURSIVE Decimal(_)
Decimal(n) ==
  IF n < 10 THEN <<SubSeq(Collation, 4, 13)[n + 1]>>
  ELSE Append(Decimal(n \div 10), SubSeq(Collation, 4, 13)[(n % 10) + 1])

KeyAt(i) == <<"f", "@", "a", ":">> \o Decimal(i)

FunctionsBatchSize == maxParams \div Len(actualColumnsOf(extractions[1]))

TwoBatchLines ==
  [i \in 1..(FunctionsBatchSize + 1) |->
     FunLine(KeyAt(i), IF i <= FunctionsBatchSize THEN <<"f">> ELSE <<>>)]

ExtTwoBatches ==
  [functions |-> CsvFile(TwoBatchLines), function_calls |-> NoQueryFile,
   classes |-> NoQueryFile, class_methods |-> NoQueryFile]

\* one corpus for the search and the statistics: functions abab (key p), ababab
\* (key q), b (key r) and $ (key t); callers p, q, r and t are functions,
\* callers z and E are not; every caller has at most one call line
UnresolvedAbabab == UnresolvedPrefix \o <<"a", "b", "a", "b", "a", "b", "@", "a", ":", "8">>

SearchFunLines ==
  <<FunLine(KeyP, <<"a", "b", "a", "b">>), FunLine(KeyQ, <<"a", "b", "a", "b", "a", "b">>),
    FunLine(KeyR, <<"b">>), FunLine(KeyT, <<"$">>)>>

SearchCallLines ==
  {c1 \o c2 \o c3 \o c4 \o c5 :
     c1 \in {<<>>, <<CallLine(KeyP, KeyQ, <<"1">>)>>,
             <<CallLine(KeyP, UnresolvedAbabab, <<"1">>)>>},
     c2 \in {<<>>, <<CallLine(KeyR, KeyQ, <<"2">>)>>},
     c3 \in {<<>>, <<CallLine(KeyZ, KeyQ, <<"3">>)>>},
     c4 \in {<<>>, <<CallLine(KeyE, KeyQ, <<"4">>)>>,
             <<CallLine(KeyE, UnresolvedAbabab, <<"4">>)>>},
     c5 \in {<<>>, <<CallLine(KeyT, KeyP, <<"5">>), CallLine(KeyQ, KeyP, <<"6">>)>>}}

ExtSearch ==
  {ExtOfLines([functions |-> SearchFunLines, function_calls |-> cl,
               classes |-> BaseQueryClasses, class_methods |-> BaseQueryMethods]) :
     cl \in SearchCallLines}

SearchPatterns ==
  {<<"a", "b", "a", "b">>, <<"a", "b", "a", "b", "a", "b">>, <<"A", "B", "A", "B">>,
   <<"b">>, <<"$">>}
SearchLimits == {1, 2, DefaultLimit}

FunctionNames == {<<"a">>, <<"x">>, <<"t">>}
CalleeNames == FunctionNames \cup {<<"q">>}
ClassNames == {<<"B">>, <<"D">>, <<"S">>}
DepthArgs == 0..MaxDepthArg

(***************************************************************************)
(* State and operations.                                                   *)
(***************************************************************************)
DB ==
  [functions |-> functions, classes |-> classes, function_calls |-> function_calls,
   class_methods |-> class_methods, seq |-> seq]

SetDB(db) ==
  /\ functions' = db.functions
  /\ classes' = db.classes
  /\ function_calls' = db.function_calls
  /\ class_methods' = db.class_methods
  /\ seq' = db.seq

Init ==
  /\ functions = {}
  /\ classes = {}
  /\ function_calls = {}
  /\ class_methods = {}
  /\ seq = EmptyDB.seq
  /\ builds = 0
  /\ lastOp = [op |-> "none"]
  /\ relations = TRUE
  /\ tempDir = {}
  /\ inflight = <<>>

\* a statement on tables that were never created throws 'relation "..." does
\* not exist': clearDatabase, the first statement of a build, then ends it
relationMissing ==
  [ok |-> FALSE, db |-> DB, stats |-> NoStats, skipped |-> [t \in Tables |-> 0]]

\* the catch of every graph query rethrows that error as
\* "Graph index not built. Run: build_graph_index <database_name>"
graphIndexNotBuilt(op, database_name) ==
  [op |-> op, database_name |-> database_name, error |-> "Graph index not built"]

\* the build_graph_index tool
BuildGraphIndex(database_name, ext) ==
  /\ builds < MaxBuilds
  /\ \E r \in {IF relations THEN handleBuildGraphIndex(DB, database_name, ext)
                           ELSE relationMissing} :
         /\ SetDB(r.db)
         /\ lastOp' = [op |-> "build_graph_index", database_name |-> database_name,
                       ext |-> ext, ok |-> r.ok, stats |-> r.stats,
                       skipped |-> r.skipped]
  /\ builds' = builds + 1
  /\ UNCHANGED environment

\* a further run of the resolver on a corpus
UpdateForeignKeys(database_name) ==
  /\ \E r \in {IF relations THEN updateForeignKeys(DB, database_name)
                           ELSE [ok |-> FALSE, db |-> DB]} :
         /\ SetDB(r.db)
         /\ lastOp' = [op |-> "updateForeignKeys", database_name |-> database_name,
                       ok |-> r.ok]
  /\ UNCHANGED <<builds, environment>>

\* the find_callers_graph tool
FindCallers(database_name, function_name) ==
  /\ IF relations
       THEN \E rows \in handleFindCallers(DB, database_name, function_name) :
              lastOp' = [op |-> "find_callers_graph", database_name |-> database_name,
                         function_name |-> function_name, rows |-> rows]
       ELSE lastOp' = graphIndexNotBuilt("find_callers_graph", database_name)
  /\ UNCHANGED <<functions, classes, function_calls, class_methods, seq, builds,
                 environment>>

\* the find_call_chain_graph tool
FindCallChain(database_name, from_function, to_function, max_depth) ==
  /\ IF relations
       THEN \E res \in handleFindCallChain(DB, database_name, from_function,
                                           to_function, max_depth) :
              lastOp' = [op |-> "find_call_chain_graph",
                         database_name |-> database_name,
                         from_function |-> from_function, to_function |-> to_function,
                         max_depth |-> max_depth, result |-> res]
       ELSE lastOp' = graphIndexNotBuilt("find_call_chain_graph", database_name)
  /\ UNCHANGED <<functions, classes, function_calls, class_methods, seq, builds,
                 environment>>

\* the get_class_hierarchy_graph tool
GetClassHierarchy(database_name, class_name) ==
  /\ IF relations
       THEN \E rows \in handleGetClassHierarchy(DB, database_name, class_name) :
              lastOp' = [op |-> "get_class_hierarchy_graph",
                         database_name |-> database_name,
                         class_name |-> class_name, rows |-> rows]
       ELSE lastOp' = graphIndexNotBuilt("get_class_hierarchy_graph", database_name)
  /\ UNCHANGED <<functions, classes, function_calls, class_methods, seq, builds,
                 environment>>

\* the find_function_graph tool
FindFunction(database_name, function_name, limit) ==
  /\ IF relations
       THEN \E rows \in handleFindFunctionFast(DB, database_name, function_name, limit) :
              lastOp' = [op |-> "find_function_graph", database_name |-> database_name,
                         function_name |-> function_name, limit |-> limit,
                         rows |-> rows]
       ELSE lastOp' = graphIndexNotBuilt("find_function_graph", database_name)
  /\ UNCHANGED <<functions, classes, function_calls, class_methods, seq, builds,
                 environment>>

\* the get_graph_stats tool
QueryGraphStats(database_name) ==
  /\ IF relations
       THEN \E res \in handleQueryGraphStats(DB, database_name) :
              lastOp' = [op |-> "get_graph_stats", database_name |-> database_name,
                         stats |-> res.stats, hotSpots |-> res.hotSpots]
       ELSE lastOp' = graphIndexNotBuilt("get_graph_stats", database_name)
  /\ UNCHANGED <<functions, classes, function_calls, class_methods, seq, builds,
                 environment>>

Next ==
  \/ \E c \in Corpora, ext \in ExtCorpora : BuildGraphIndex(c, ext)
  \/ \E c \in Corpora : UpdateForeignKeys(c)

Spec == Init /\ [][Next]_vars

\* builds of one corpus from extractions with repeated and blank lines
NextIngest == builds < MaxIngestBuilds /\ \E ext \in ExtIngest : BuildGraphIndex(DbA, ext)

SpecIngest == Init /\ [][NextIngest]_vars

\* queries on the store that one build of corpus A leaves
InitQuery ==
  \E ext \in ExtQuery :
    \E r \in {handleBuildGraphIndex(EmptyDB, DbA, ext)} :
        /\ functions = r.db.functions
        /\ classes = r.db.classes
        /\ function_calls = r.db.function_calls
        /\ class_methods = r.db.class_methods
        /\ seq = r.db.seq
        /\ builds = 1
        /\ lastOp = [op |-> "build_graph_index", database_name |-> DbA, ext |-> ext,
                     ok |-> r.ok, stats |-> r.stats, skipped |-> r.skipped]
        /\ relations = TRUE
        /\ tempDir = {}
        /\ inflight = <<>>

NextQuery ==
  \/ \E n \in CalleeNames : FindCallers(DbA, n)
  \/ \E from \in FunctionNames, to \in FunctionNames, d \in DepthArgs :
       FindCallChain(DbA, from, to, d)
  \/ \E n \in ClassNames : GetClassHierarchy(DbA, n)

SpecQuery == InitQuery /\ [][NextQuery]_vars

\* the evaluation of WITH RECURSIVE call_chain by the store: the working table
\* starts as the non-recursive term; each iteration adds the working table to
\* the result and replaces it by the rows the recursive term derives from it;
\* the statement returns when the working table is empty
ChainBegin(database_name, from_function, to_function, max_depth) ==
  /\ inflight = <<>>
  /\ relations
  /\ inflight' = <<[op |-> "find_call_chain_graph", database_name |-> database_name,
                    from_function |-> from_function, to_function |-> to_function,
                    max_depth |-> max_depth,
                    working |-> ChainStart(DB, database_name, from_function),
                    result |-> {}, iterations |-> 0]>>
  /\ UNCHANGED <<functions, classes, function_calls, class_methods, seq, builds,
                 lastOp, relations, tempDir>>

ChainIterate ==
  /\ inflight # <<>>
  /\ inflight[1].working # {}
  /\ inflight' = <<[inflight[1] EXCEPT
                      !.result = @ \cup inflight[1].working,
                      !.working = ChainStep(DB, inflight[1].database_name,
                                            inflight[1].working, inflight[1].max_depth),
                      !.iterations = @ + 1]>>
  /\ UNCHANGED <<functions, classes, function_calls, class_methods, seq, builds,
                 lastOp, relations, tempDir>>

ChainReturn ==
  /\ inflight # <<>>
  /\ inflight[1].working = {}
  /\ \E res \in ChainAnswer(inflight[1].result, inflight[1].to_function) :
       lastOp' = [op |-> "find_call_chain_graph",
                  database_name |-> inflight[1].database_name,
                  from_function |-> inflight[1].from_function,
                  to_function |-> inflight[1].to_function,
                  max_depth |-> inflight[1].max_depth, result |-> res]
  /\ inflight' = <<>>
  /\ UNCHANGED <<functions, classes, function_calls, class_methods, seq, builds,
                 relations, tempDir>>

InitChain ==
  \E ext \in ExtChain :
    \E r \in {handleBuildGraphIndex(EmptyDB, DbA, ext)} :
        /\ functions = r.db.functions
        /\ classes = r.db.classes
        /\ function_calls = r.db.function_calls
        /\ class_methods = r.db.class_methods
        /\ seq = r.db.seq
        /\ builds = 1
        /\ lastOp = [op |-> "build_graph_index", database_name |-> DbA, ext |-> ext,
                     ok |-> r.ok, stats |-> r.stats, skipped |-> r.skipped]
        /\ relations = TRUE
        /\ tempDir = {}
        /\ inflight = <<>>

NextChain ==
  \/ \E from \in {<<"a">>, <<"x">>}, d \in ChainDepthArgs :
       ChainBegin(DbA, from, <<"t">>, d)
  \/ ChainIterate
  \/ ChainReturn

\* the store keeps evaluating a statement it has begun
SpecChain == InitChain /\ [][NextChain]_vars /\ WF_vars(ChainIterate \/ ChainReturn)

\* the evaluation of WITH RECURSIVE class_hierarchy by the store, one
\* replacement of the working table at a time
HierarchyBegin(database_name, class_name) ==
  /\ inflight = <<>>
  /\ relations
  /\ inflight' = <<[op |-> "get_class_hierarchy_graph", database_name |-> database_name,
                    class_name |-> class_name,
                    working |-> HierarchyStart(DB, database_name, class_name),
                    result |-> {}, iterations |-> 0]>>
  /\ UNCHANGED <<functions, classes, function_calls, class_methods, seq, builds,
                 lastOp, relations, tempDir>>

HierarchyIterate ==
  /\ inflight # <<>>
  /\ inflight[1].working # {}
  /\ inflight' = <<[inflight[1] EXCEPT
                      !.result = @ \cup inflight[1].working,
                      !.working = HierarchyStep(DB, inflight[1].working),
                      !.iterations = @ + 1]>>
  /\ UNCHANGED <<functions, classes, function_calls, class_methods, seq, builds,
                 lastOp, relations, tempDir>>

HierarchyReturn ==
  /\ inflight # <<>>
  /\ inflight[1].working = {}
  /\ \E rows \in HierarchyAnswer(DB, inflight[1].result) :
       lastOp' = [op |-> "get_class_hierarchy_graph",
                  database_name |-> inflight[1].database_name,
                  class_name |-> inflight[1].class_name, rows |-> rows]
  /\ inflight' = <<>>
  /\ UNCHANGED <<functions, classes, function_calls, class_methods, seq, builds,
                 relations, tempDir>>

\* one corpus whose parent links form a chain, a class that is its own
\* parent, two classes that are each other's parent, and two classes of one
\* name of which one is its own parent
HierarchyClassLines ==
  {<<ClassLine(KeyC, <<"B">>, <<>>), ClassLine(KeyD, <<"D">>, KeyC)>>,
   <<ClassLine(KeyC, <<"B">>, <<>>), ClassLine(KeyE, <<"S">>, KeyE)>>,
   <<ClassLine(KeyC, <<"B">>, KeyD), ClassLine(KeyD, <<"D">>, KeyC)>>,
   <<ClassLine(KeyC, <<"B">>, <<>>), ClassLine(KeyD, <<"D">>, KeyC),
     ClassLine(KeyE, <<"D">>, KeyE)>>,
   <<ClassLine(KeyC, <<"B">>, KeyD), ClassLine(KeyD, <<"D">>, KeyE),
     ClassLine(KeyE, <<"S">>, KeyC)>>}

ExtHierarchy ==
  {ExtOfLines([functions |-> QueryFunLines, function_calls |-> BaseQueryCalls,
               classes |-> kl, class_methods |-> BaseQueryMethods]) :
     kl \in HierarchyClassLines}

InitHierarchy ==
  \E ext \in ExtHierarchy :
    \E r \in {handleBuildGraphIndex(EmptyDB, DbA, ext)} :
        /\ functions = r.db.functions
        /\ classes = r.db.classes
        /\ function_calls = r.db.function_calls
        /\ class_methods = r.db.class_methods
        /\ seq = r.db.seq
        /\ builds = 1
        /\ lastOp = [op |-> "build_graph_index", database_name |-> DbA, ext |-> ext,
                     ok |-> r.ok, stats |-> r.stats, skipped |-> r.skipped]
        /\ relations = TRUE
        /\ tempDir = {}
        /\ inflight = <<>>

NextHierarchy ==
  \/ \E n \in ClassNames : HierarchyBegin(DbA, n)
  \/ HierarchyIterate
  \/ HierarchyReturn

\* the store keeps evaluating a statement it has begun
SpecHierarchy ==
  InitHierarchy /\ [][NextHierarchy]_vars /\ WF_vars(HierarchyIterate \/ HierarchyReturn)

(***************************************************************************)
(* handleBuildGraphIndex step by step.  The handler gives way at every     *)
(* await, so the steps of two invocations interleave; inflight holds the   *)
(* invocations with their position pc, the index k of the extraction they  *)
(* are at and the rows acc read for it.  All invocations write their files *)
(* in the one directory tempDir under names made of the query only.        *)
(***************************************************************************)
TempFile(query, suffix) == <<query, suffix>>

Exists(dir, f) == \E e \in dir : e.file = f
ContentOf(dir, f) == (CHOOSE e \in dir : e.file = f).content
WriteFile(dir, f, content) ==
  {e \in dir : e.file # f} \cup {[file |-> f, content |-> content]}
Unlink(dir, f) == {e \in dir : e.file # f}

NoAcc == [values |-> <<>>, seenIds |-> {}, skippedDuplicates |-> 0]

\* the failure is swallowed and the loop goes on with the next pass
Thrown_GoesOn(b) ==
  [b EXCEPT !.k = @ + 1, !.acc = NoAcc,
            !.pc = IF b.k + 1 > Len(extractions) THEN "resolve" ELSE "extract"]

\* the handler throws
Thrown(b) == [b EXCEPT !.pc = "failed", !.ok = FALSE, !.acc = NoAcc]

\* the loop over the extractions left one pass early
NextPass_ResolvesEarly(b) ==
  [b EXCEPT !.k = @ + 1, !.acc = NoAcc,
            !.pc = IF b.k + 1 > Len(extractions) - 1 THEN "resolve" ELSE "extract"]

\* the next pass of the loop over the extractions, or the resolver after the
\* last pass
NextPass(b) ==
  [b EXCEPT !.k = @ + 1, !.acc = NoAcc,
            !.pc = IF b.k + 1 > Len(extractions) THEN "resolve" ELSE "extract"]

\* invocation i becomes b; a handler that returned or threw is the last
\* operation
Becomes(i, b) ==
  /\ inflight' = [inflight EXCEPT ![i] = b]
  /\ lastOp' = IF b.pc \in {"done", "failed"}
                 THEN [op |-> "build_graph_index", database_name |-> b.database_name,
                       ext |-> b.ext, ok |-> b.ok, stats |-> b.stats,
                       skipped |-> b.skipped]
                 ELSE lastOp

At(i, pc) == i \in 1..Len(inflight) /\ inflight[i].pc = pc

\* the tool is called: nothing keeps a second invocation from starting
BuildStart(database_name, ext) ==
  /\ builds < MaxConcurrentBuilds
  /\ relations
  /\ inflight' = Append(inflight,
                        [database_name |-> database_name, ext |-> ext, pc |-> "clear",
                         k |-> 1, acc |-> NoAcc, ok |-> TRUE, stats |-> NoStats,
                         skipped |-> [t \in Tables |-> 0]])
  /\ builds' = builds + 1
  /\ UNCHANGED <<functions, classes, function_calls, class_methods, seq, lastOp,
                 relations, tempDir>>

\* await postgres.clearDatabase(database_name)
BuildClear(i) ==
  /\ At(i, "clear")
  /\ SetDB(clearDatabase(DB, inflight[i].database_name))
  /\ Becomes(i, [inflight[i] EXCEPT !.pc = "extract"])
  /\ UNCHANGED <<builds, relations, tempDir>>

\* access(queryFile), then codeql query run --output bqrsFile
BuildExtract(i) ==
  /\ At(i, "extract")
  /\ LET b == inflight[i]
         x == extractions[b.k]
         file == b.ext[x.table]
     IN  IF ~file.present
           THEN /\ Becomes(i, IF x.required THEN Thrown(b)
                              ELSE NextPass([b EXCEPT !.stats[x.table] = 0]))
                /\ UNCHANGED tempDir
           ELSE /\ tempDir' = WriteFile(tempDir, TempFile(x.query, "bqrs"), file.lines)
                /\ Becomes(i, [b EXCEPT !.pc = "decode"])
  /\ UNCHANGED <<functions, classes, function_calls, class_methods, seq, builds,
                 relations>>

\* codeql bqrs decode bqrsFile --format=csv --output csvFile
BuildDecode(i) ==
  /\ At(i, "decode")
  /\ LET b == inflight[i]
         x == extractions[b.k]
     IN  IF Exists(tempDir, TempFile(x.query, "bqrs"))
           THEN /\ tempDir' = WriteFile(tempDir, TempFile(x.query, "csv"),
                                        ContentOf(tempDir, TempFile(x.query, "bqrs")))
                /\ Becomes(i, [b EXCEPT !.pc = "read"])
           ELSE /\ Becomes(i, Thrown(b))
                /\ UNCHANGED tempDir
  /\ UNCHANGED <<functions, classes, function_calls, class_methods, seq, builds,
                 relations>>

\* await readFile(csvFile), then the row loop
BuildRead(i) ==
  /\ At(i, "read")
  /\ LET b == inflight[i]
         x == extractions[b.k]
     IN  IF Exists(tempDir, TempFile(x.query, "csv"))
           THEN Becomes(i, [b EXCEPT
                  !.pc = "insert",
                  !.acc = rowLoop(x, b.database_name,
                                  dataLinesOf([lines |->
                                    ContentOf(tempDir, TempFile(x.query, "csv"))]),
                                  NoAcc)])
           ELSE Becomes(i, Thrown(b))
  /\ UNCHANGED <<functions, classes, function_calls, class_methods, seq, builds,
                 relations, tempDir>>

\* the batch loop and stats[table] = values.length
BuildInsert(i) ==
  /\ At(i, "insert")
  /\ LET b == inflight[i]
         x == extractions[b.k]
     IN  \E r \in {insertValues([ok |-> TRUE, db |-> DB, stats |-> b.stats,
                                 skipped |-> b.skipped],
                                x.table, actualColumnsOf(x), b.acc)} :
           /\ SetDB(r.db)
           /\ Becomes(i, IF r.ok
                           THEN [b EXCEPT !.pc = "cleanup", !.stats = r.stats,
                                          !.skipped = r.skipped, !.acc = NoAcc]
                           ELSE Thrown([b EXCEPT !.skipped = r.skipped]))
  /\ UNCHANGED <<builds, relations, tempDir>>

\* try { await unlink(bqrsFile); await unlink(csvFile); } catch {}
BuildCleanup(i) ==
  /\ At(i, "cleanup")
  /\ LET b == inflight[i]
         x == extractions[b.k]
     IN  /\ tempDir' = IF Exists(tempDir, TempFile(x.query, "bqrs"))
                         THEN Unlink(Unlink(tempDir, TempFile(x.query, "bqrs")),
                                     TempFile(x.query, "csv"))
                         ELSE tempDir
         /\ Becomes(i, NextPass(b))
  /\ UNCHANGED <<functions, classes, function_calls, class_methods, seq, builds,
                 relations>>

\* await postgres.updateForeignKeys(database_name), then the answer
BuildResolve(i) ==
  /\ At(i, "resolve")
  /\ \E fk \in {updateForeignKeys(DB, inflight[i].database_name)} :
       /\ SetDB(fk.db)
       /\ Becomes(i, IF fk.ok THEN [inflight[i] EXCEPT !.pc = "done"]
                     ELSE Thrown(inflight[i]))
  /\ UNCHANGED <<builds, relations, tempDir>>

NextConcurrent ==
  \/ \E b \in ConcurrentBuilds : BuildStart(b[1], b[2])
  \/ \E i \in 1..MaxConcurrentBuilds : BuildClear(i)
  \/ \E i \in 1..MaxConcurrentBuilds : BuildExtract(i)
  \/ \E i \in 1..MaxConcurrentBuilds : BuildDecode(i)
  \/ \E i \in 1..MaxConcurrentBuilds : BuildRead(i)
  \/ \E i \in 1..MaxConcurrentBuilds : BuildInsert(i)
  \/ \E i \in 1..MaxConcurrentBuilds : BuildCleanup(i)
  \/ \E i \in 1..MaxConcurrentBuilds : BuildResolve(i)

SpecConcurrent == Init /\ [][NextConcurrent]_vars

\* builds of one corpus whose functions may need a second batch
NextBatches ==
  builds < MaxBatchBuilds
    /\ \E ext \in ExtMissing \cup {ExtTwoBatches} : BuildGraphIndex(DbA, ext)

SpecBatches == Init /\ [][NextBatches]_vars

\* builds of one corpus from extractions with missing query files or
\* malformed lines
NextFaults == builds < MaxFaultBuilds /\ \E ext \in ExtFaults : BuildGraphIndex(DbA, ext)

SpecFaults == Init /\ [][NextFaults]_vars

\* the five graph queries on two corpora: corpus B is never built, corpus A is
\* built once or not at all, and the tables of the schema may be missing
InitSearch ==
  \/ /\ Init
  \/ /\ functions = {}
     /\ classes = {}
     /\ function_calls = {}
     /\ class_methods = {}
     /\ seq = EmptyDB.seq
     /\ builds = 0
     /\ lastOp = [op |-> "none"]
     /\ relations = FALSE
     /\ tempDir = {}
     /\ inflight = <<>>
  \/ \E ext \in ExtSearch :
       \E r \in {handleBuildGraphIndex(EmptyDB, DbA, ext)} :
           /\ functions = r.db.functions
           /\ classes = r.db.classes
           /\ function_calls = r.db.function_calls
           /\ class_methods = r.db.class_methods
           /\ seq = r.db.seq
           /\ builds = 1
           /\ lastOp = [op |-> "build_graph_index", database_name |-> DbA, ext |-> ext,
                        ok |-> r.ok, stats |-> r.stats, skipped |-> r.skipped]
           /\ relations = TRUE
           /\ tempDir = {}
           /\ inflight = <<>>

NextSearch ==
  \/ \E c \in Corpora, n \in SearchPatterns, l \in SearchLimits : FindFunction(c, n, l)
  \/ \E c \in Corpora : QueryGraphStats(c)
  \/ \E c \in Corpora : FindCallers(c, <<"a", "b", "a", "b", "a", "b">>)
  \/ \E c \in Corpora : FindCallChain(c, <<"b">>, <<"a", "b", "a", "b">>, 2)
  \/ \E c \in Corpora : GetClassHierarchy(c, <<"B">>)

SpecSearch == InitSearch /\ [][NextSearch]_vars

(***************************************************************************)
(* Properties of rebuilds and of the resolver across corpora (Spec).       *)
(***************************************************************************)
IsBuild(op, c) == op.op = "build_graph_index" /\ op.database_name = c

\* the rows of every table that are not tagged with corpus c
RowsNotTagged(c) ==
  [functions |-> {r \in functions : r.database_name # c},
   classes |-> {r \in classes : r.database_name # c},
   function_calls |-> {r \in function_calls : r.database_name # c},
   class_methods |-> {r \in class_methods : r.database_name # c}]

\* the natural keys (first column) of the data lines of an extracted file
KeysOfFile(file) ==
  IF ~file.present \/ file.lines = <<>> THEN {}
  ELSE {partsOf(l)[1] : l \in {m \in Range(Tail(file.lines)) : Trim(m) # <<>>}} \ {NULL}

\* C1: build_index(A) leaves every row tagged with another corpus B unchanged
\* in functions, classes, function_calls and class_methods: no B row is
\* deleted and no resolved id of a B row is altered.
C1_RebuildKeepsOtherCorpora ==
  [][\A c \in Corpora : IsBuild(lastOp', c) => RowsNotTagged(c)' = RowsNotTagged(c)]_vars

\* C2: natural keys are unique per corpus only: when a function or class key
\* K is stored for corpus A, build_index(B) for another corpus B whose
\* extracted rows contain K succeeds, and afterwards the A row and the B row
\* with key K both exist.
C2_SameKeyInTwoCorpora ==
  [][\A b \in Corpora :
       IsBuild(lastOp', b) =>
         /\ \A f \in functions :
              (f.database_name # b /\ f.codeql_id \in KeysOfFile(lastOp'.ext.functions))
                => /\ lastOp'.ok
                   /\ f \in functions'
                   /\ \E g \in functions' :
                        g.database_name = b /\ g.codeql_id = f.codeql_id
         /\ \A k \in classes :
              (k.database_name # b /\ k.codeql_id \in KeysOfFile(lastOp'.ext.classes))
                => /\ lastOp'.ok
                   /\ k \in classes'
                   /\ \E g \in classes' :
                        g.database_name = b /\ g.codeql_id = k.codeql_id]_vars

\* the resolver has just run on corpus c: on its own, or as the last step of a
\* build of c that ingested every fact type
ResolverRanOn(c) ==
  \/ lastOp.op = "updateForeignKeys" /\ lastOp.database_name = c
  \/ IsBuild(lastOp, c) /\ \A t \in Tables : lastOp.stats[t] >= 0

\* C3: running the resolver on a corpus twice in a row, with no ingestion in
\* between, produces no error on the second run and leaves every row, and so
\* every resolved id, exactly as it was after the first run.
C3_ResolverTwice ==
  \A c \in Corpora :
    ResolverRanOn(c) =>
      LET again == updateForeignKeys(DB, c)
      IN  again.ok /\ again.db = DB

(***************************************************************************)
(* Properties of ingestion (SpecIngest).                                   *)
(***************************************************************************)
\* the natural key of a stored row: the first extracted column of its table
NaturalKey(table, r) ==
  CASE table = "functions" -> r.codeql_id
    [] table = "classes" -> r.codeql_id
    [] table = "function_calls" -> r.caller_codeql_id
    [] table = "class_methods" -> r.class_codeql_id

StoredRows(table, c) == {r \in TableOf(DB, table) : r.database_name = c}

\* the data lines of an extracted file that are not blank
FactLines(file) ==
  IF ~file.present \/ file.lines = <<>> THEN <<>>
  ELSE SelectSeq(Tail(file.lines), LAMBDA l : Trim(l) # <<>>)

\* a line repeats an earlier line of the sequence
HasRepeat(ls) == \E i, j \in 1..Len(ls) : i < j /\ ls[i] = ls[j]

BuildDone == lastOp.op = "build_graph_index" /\ lastOp.ok

\* C7: after build_index, every call edge whose callee reference equals the
\* natural key of a stored function has a non-null callee_id, and the function
\* it points to has a name equal to the edge's stored callee_name.
C7_ResolvedCalleeHasCalleeName ==
  BuildDone =>
    \A fc \in StoredRows("function_calls", lastOp.database_name) :
      (\E f \in functions : f.codeql_id = fc.callee_codeql_id)
        => /\ fc.callee_id # NULLID
           /\ \E g \in functions : g.id = fc.callee_id /\ g.name = fc.callee_name

\* C8: after ingestion, no two stored rows of one fact type and corpus have the
\* same natural key, whatever duplicates the extracted rows contained.
C8_NaturalKeysUnique ==
  \A t \in Tables : \A r1, r2 \in TableOf(DB, t) :
    (r1.database_name = r2.database_name /\ NaturalKey(t, r1) = NaturalKey(t, r2))
      => r1 = r2

\* a build stored rows of a fact type whose extracted lines repeated a key
C8_Witness ==
  /\ BuildDone
  /\ \E t \in Tables :
       /\ lastOp.skipped[t] > 0
       /\ StoredRows(t, lastOp.database_name) # {}

\* C9: in one ingestion run the stored row count plus the skipped-duplicate
\* count equals the number of non-blank data rows, a repeated fact is counted as
\* skipped and not stored, and the reported statistic of the fact type equals
\* the stored count.
C9_SkippedPlusStored ==
  BuildDone =>
    \A t \in Tables :
      LET stored == Cardinality(StoredRows(t, lastOp.database_name))
          facts == FactLines(lastOp.ext[t])
      IN  /\ stored + lastOp.skipped[t] = Len(facts)
          /\ lastOp.stats[t] = stored
          /\ HasRepeat(facts) => lastOp.skipped[t] >= 1
          /\ stored <= Cardinality(Range(facts))

\* a build whose call file repeated a fact and also held a blank line or a
\* second fact
C9_Witness ==
  /\ BuildDone
  /\ HasRepeat(FactLines(lastOp.ext.function_calls))
  /\ lastOp.skipped.function_calls = 1
  /\ lastOp.stats.function_calls = 1

\* C10: two extracted call rows that share the caller key but differ in callee
\* reference, file or line are both stored as call edges, and two membership
\* rows of one class with different methods are both stored: every extracted
\* fact has its stored row.
C10_DistinctFactsStored ==
  BuildDone =>
    /\ \A l \in Range(FactLines(lastOp.ext.function_calls)) :
         \E fc \in StoredRows("function_calls", lastOp.database_name) :
           /\ fc.caller_codeql_id = partsOf(l)[1]
           /\ fc.callee_codeql_id = partsOf(l)[2]
           /\ fc.file = partsOf(l)[3]
           /\ fc.line = partsOf(l)[4]
    /\ \A l \in Range(FactLines(lastOp.ext.class_methods)) :
         \E cm \in StoredRows("class_methods", lastOp.database_name) :
           /\ cm.class_codeql_id = partsOf(l)[1]
           /\ cm.method_codeql_id = partsOf(l)[2]

(***************************************************************************)
(* Properties of the queries (SpecQuery).                                  *)
(***************************************************************************)
CorpusFunctions(c) == {f \in functions : f.database_name = c}

\* a stored call edge leads from function f to function g: f is its resolved
\* caller and g is its resolved callee or bears its callee_name
CallEdge(f, g) ==
  \E fc \in function_calls :
    fc.caller_id = f.id /\ (g.id = fc.callee_id \/ g.name = fc.callee_name)

\* the functions of corpus c that some path of at most k call edges reaches
\* from a function named from
RECURSIVE ReachWithin(_, _, _)
ReachWithin(c, from, k) ==
  IF k = 0 THEN {f \in CorpusFunctions(c) : f.name = from}
  ELSE LET R == ReachWithin(c, from, k - 1)
       IN  R \cup {g \in CorpusFunctions(c) : \E f \in R : CallEdge(f, g)}

Least(S) == CHOOSE k \in S : \A o \in S : k <= o

Smaller(a, b) == IF a < b THEN a ELSE b

\* the paths of exactly k call edges from a function named from to a function
\* named to on which no function name occurs twice
NameDistinctPaths(c, from, to, k) ==
  {p \in [1..(k + 1) -> CorpusFunctions(c)] :
     /\ p[1].name = from
     /\ p[k + 1].name = to
     /\ \A i \in 1..k : CallEdge(p[i], p[i + 1])
     /\ \A i, j \in 1..(k + 1) : i < j => p[i].name # p[j].name}

\* a name-distinct path has at most as many functions as the corpus has names
NameDistinctDepths(c, from, to, max_depth) ==
  {k \in 0..Smaller(max_depth, Cardinality({f.name : f \in CorpusFunctions(c)}) - 1) :
     NameDistinctPaths(c, from, to, k) # {}}

IsChainQuery == lastOp.op = "find_call_chain_graph"

\* C4: find_call_chain returns a path of minimum depth among all paths that
\* start at a function named from, follow call edges and reach a function named
\* to with depth <= max_depth, and reports not-found exactly when no such path
\* exists within max_depth.
C4_ShortestOfAllPaths ==
  IsChainQuery =>
    LET depths == {k \in 0..lastOp.max_depth :
                     \E g \in ReachWithin(lastOp.database_name, lastOp.from_function, k) :
                       g.name = lastOp.to_function}
    IN  /\ lastOp.result.found <=> depths # {}
        /\ lastOp.result.found => lastOp.result.depth = Least(depths)

\* C4 as amended: find_call_chain returns a path of minimum depth among the
\* paths on which no function name occurs twice, and reports not-found exactly
\* when no such path of depth <= max_depth exists.
C4_ShortestNameDistinctPath ==
  IsChainQuery =>
    LET depths == NameDistinctDepths(lastOp.database_name, lastOp.from_function,
                                     lastOp.to_function, lastOp.max_depth)
    IN  /\ lastOp.result.found <=> depths # {}
        /\ lastOp.result.found =>
             /\ lastOp.result.depth = Least(depths)
             /\ \E p \in NameDistinctPaths(lastOp.database_name, lastOp.from_function,
                                           lastOp.to_function, lastOp.result.depth) :
                  lastOp.result.path = [i \in 1..Len(lastOp.result.path) |-> p[i].name]

\* the query of the example: a path [a, x, t] of depth 2 found with max_depth 5
C4_Witness ==
  /\ IsChainQuery
  /\ lastOp.max_depth = 5
  /\ lastOp.result.found
  /\ lastOp.result.path = << <<"a">>, <<"x">>, <<"t">> >>
  /\ lastOp.result.depth = 2

\* C5: find_callers returns every call edge of the corpus whose resolved callee
\* function is named name or whose callee_name equals name (up to 200 rows),
\* resolved and unresolved edges alike, and tags an edge 'resolved' exactly
\* when its callee_id is non-null.
C5_FindCallersComplete ==
  lastOp.op = "find_callers_graph" =>
    LET matching == {fc \in function_calls :
                       /\ fc.database_name = lastOp.database_name
                       /\ \/ fc.callee_name = lastOp.function_name
                          \/ \E f \in functions :
                               f.id = fc.callee_id /\ f.name = lastOp.function_name}
    IN  /\ Cardinality(matching) <= CallersLimit
             => {r.edge : r \in lastOp.rows} = {fc.id : fc \in matching}
        /\ \A r \in lastOp.rows : \A fc \in function_calls :
             fc.id = r.edge => (r.call_type = "resolved" <=> fc.callee_id # NULLID)

\* the classes reached from the classes of S by following parent links
RECURSIVE AncestorsOf(_)
AncestorsOf(S) ==
  LET up == S \cup {c \in classes : \E d \in S : d.parent_id = c.id}
  IN  IF up = S THEN S ELSE AncestorsOf(up)

\* C6: get_class_hierarchy returns the classes reached by following resolved
\* parent links upward from the named class, root first and the named class
\* last, and attributes to each class on the chain exactly the methods whose
\* membership rows resolve to that class.
C6_HierarchyWithMethods ==
  lastOp.op = "get_class_hierarchy_graph" =>
    LET rows == lastOp.rows
        named == {c \in classes : c.name = lastOp.class_name
                                  /\ c.database_name = lastOp.database_name}
    IN  /\ {rows[i].id : i \in 1..Len(rows)} = {c.id : c \in AncestorsOf(named)}
        /\ rows # <<>> => rows[Len(rows)].name = lastOp.class_name
        /\ rows # <<>> =>
             rows[1].parent_id = NULLID \/ Len(rows) > HierarchyLevelCap
        /\ \A i \in 1..Len(rows) :
             {m[1] : m \in rows[i].methods}
               = {cm.id : cm \in {x \in class_methods : x.class_id = rows[i].id}}

(***************************************************************************)
(* Properties of the search, of the statistics and of queries on a corpus  *)
(* that was never built (SpecSearch).                                      *)
(***************************************************************************)
\* the query ended in an error
Failed(op) == "error" \in DOMAIN op

\* C11: for find_function with limit >= 1, when the corpus holds a function
\* whose name equals the pattern, a function with that name is the first
\* result; the results are ordered by similarity descending, then by name
\* ascending, and there are at most limit of them.
C11_ExactNameFirst ==
  (lastOp.op = "find_function_graph" /\ ~Failed(lastOp)) =>
    LET rows == lastOp.rows
        pattern == lastOp.function_name
    IN  /\ (\E f \in functions : /\ f.database_name = lastOp.database_name
                                 /\ f.name = pattern)
             => (rows # <<>> /\ rows[1].name = pattern)
        /\ \A i \in 1..Len(rows) : \A j \in (i + 1)..Len(rows) :
             /\ ~FractionGreater(similarity(rows[j].name, pattern),
                                 similarity(rows[i].name, pattern))
             /\ FractionGreater(similarity(rows[i].name, pattern),
                                similarity(rows[j].name, pattern))
                  \/ ~TextLess(rows[j].name, rows[i].name)
        /\ Len(rows) <= lastOp.limit

GraphQueries ==
  {"find_function_graph", "find_callers_graph", "find_call_chain_graph",
   "get_class_hierarchy_graph", "get_graph_stats"}

\* build_graph_index has never been run for corpus c: the specification builds
\* corpus A only, and at most once before the queries
NeverBuilt(c) == c # DbA \/ builds = 0

\* C12: a graph query (find_function, find_callers, find_call_chain,
\* get_class_hierarchy, get_stats) on a corpus for which build_graph_index has
\* never been run ends in the condition 'Graph index not built', not in an
\* empty result and not in another failure.
C12_NeverBuiltIsReported ==
  (lastOp.op \in GraphQueries /\ NeverBuilt(lastOp.database_name)) =>
    (Failed(lastOp) /\ lastOp.error = "Graph index not built")

\* the call edges of corpus c that come in to function f by its id or, when
\* the callee is unresolved, by its name
IncomingByName(c, f) ==
  {fc \in function_calls :
     /\ fc.database_name = c
     /\ \/ fc.callee_id = f.id
        \/ fc.callee_id = NULLID /\ fc.callee_name = f.name}

\* C15: a call edge whose callee is unresolved (callee_id null) and whose
\* callee name equals a function's name contributes to that function's
\* incoming call count in the hot spots of get_stats.
C15_UnresolvedEdgesCounted ==
  (lastOp.op = "get_graph_stats" /\ ~Failed(lastOp)) =>
    LET hot == {f \in CorpusFunctions(lastOp.database_name) :
                  Cardinality(IncomingByName(lastOp.database_name, f)) > 1}
    IN  Cardinality(hot) <= HotSpotsLimit =>
          \A f \in hot : \E i \in 1..Len(lastOp.hotSpots) :
            /\ lastOp.hotSpots[i].function = f.id
            /\ lastOp.hotSpots[i].call_count
                 = Cardinality(IncomingByName(lastOp.database_name, f))

\* C16: the hot spots of get_stats list only functions of the corpus with more
\* than one incoming call edge, at most 10 of them, in non-increasing order of
\* the call count, and the distinct-caller count of each is at least 1 and at
\* most its call count.
C16_HotSpotsWellFormed ==
  (lastOp.op = "get_graph_stats" /\ ~Failed(lastOp)) =>
    LET hs == lastOp.hotSpots
    IN  /\ Len(hs) <= 10
        /\ \A i \in 1..Len(hs) :
             /\ \E f \in CorpusFunctions(lastOp.database_name) :
                  /\ f.id = hs[i].function
                  /\ hs[i].call_count
                       = Cardinality({fc \in function_calls : fc.callee_id = f.id})
             /\ hs[i].call_count > 1
             /\ hs[i].unique_callers >= 1
             /\ hs[i].unique_callers <= hs[i].call_count
        /\ \A i \in 1..Len(hs) : \A j \in (i + 1)..Len(hs) :
             hs[i].call_count >= hs[j].call_count

(***************************************************************************)
(* Properties of builds whose extraction is incomplete or malformed        *)
(* (SpecFaults).                                                           *)
(***************************************************************************)
\* the resolver has run on corpus c: every call edge and membership row of c
\* whose key names a stored function or class bears its id
Resolved(c) ==
  /\ \A fc \in StoredRows("function_calls", c) :
       /\ fc.caller_id = IdOfKey(functions, fc.caller_codeql_id)
       /\ fc.callee_id = IdOfKey(functions, fc.callee_codeql_id)
  /\ \A cm \in StoredRows("class_methods", c) :
       /\ cm.class_id = IdOfKey(classes, cm.class_codeql_id)
       /\ cm.method_id = IdOfKey(functions, cm.method_codeql_id)

\* C13: in build_index, a missing extraction query for the required fact type
\* (functions) aborts the build with an error and no later fact type is
\* extracted; a missing query for an optional fact type (calls, classes,
\* methods) yields zero rows for that type, reported as 0 in the statistics,
\* and the build continues with the remaining fact types and the resolver.
C13_MissingExtraction ==
  (IsBuild(lastOp, DbA) /\ lastOp.ext \in ExtMissing) =>
    IF ~lastOp.ext.functions.present
      THEN /\ ~lastOp.ok
           /\ lastOp.stats = NoStats
           /\ \A t \in Tables : StoredRows(t, DbA) = {}
      ELSE /\ lastOp.ok
           /\ \A t \in Tables :
                /\ lastOp.stats[t] = Cardinality(StoredRows(t, DbA))
                /\ lastOp.stats[t] = Len(FactLines(lastOp.ext[t]))
                /\ ~lastOp.ext[t].present => lastOp.stats[t] = 0
           /\ Resolved(DbA)

\* a build without the calls query that stored the functions, the class and
\* its resolved membership row
C13_Witness ==
  /\ IsBuild(lastOp, DbA)
  /\ lastOp.ok
  /\ ~lastOp.ext.function_calls.present
  /\ lastOp.ext.class_methods.present
  /\ lastOp.stats.function_calls = 0
  /\ lastOp.stats.functions = 2
  /\ \E cm \in StoredRows("class_methods", DbA) : cm.class_id # NULLID

\* the number of columns the extraction of table t selects
FieldCount(t) ==
  Len((CHOOSE x \in Range(extractions) : x.table = t).columns)

\* the lines of a file that parse into as many fields as the fact type has
\* columns
WellFormedLines(t, file) ==
  SelectSeq(FactLines(file), LAMBDA l : Len(partsOf(l)) = FieldCount(t))

\* C14: during ingestion a row whose number of parsed fields differs from the
\* column count of its fact type is dropped and the build continues: the
\* malformed row is not stored, every well-formed row of the run is stored,
\* and the build does not fail because of it.
C14_MalformedRowDropped ==
  (IsBuild(lastOp, DbA) /\ lastOp.ext \in ExtMalformed) =>
    /\ lastOp.ok
    /\ \A t \in Tables :
         /\ {NaturalKey(t, r) : r \in StoredRows(t, DbA)}
              = {partsOf(l)[1] : l \in Range(WellFormedLines(t, lastOp.ext[t]))}
         /\ Cardinality(TableOf(DB, t)) = Len(WellFormedLines(t, lastOp.ext[t]))

(***************************************************************************)
(* Properties of the evaluation of the call-chain search (SpecChain).      *)
(***************************************************************************)
ChainInFlight == inflight # <<>>

\* every row derived so far has as many edges as its depth and at most
\* max_depth of them, and the working table was replaced at most max_depth + 1
\* times
ChainBounded ==
  ChainInFlight =>
    /\ \A r \in inflight[1].working \cup inflight[1].result :
         /\ r.depth <= inflight[1].max_depth
         /\ Len(r.path) = r.depth + 1
    /\ inflight[1].iterations <= inflight[1].max_depth + 1

\* C20: the call-chain search terminates for every finite call graph,
\* including graphs with cycles and self-calls, and never extends a path
\* beyond max_depth edges.
C20_ChainSearchTerminates == [](ChainBounded) /\ (ChainInFlight ~> ~ChainInFlight)

\* a search that ran out of rows before the depth bound because the only call
\* edges left lead back to a name on the path
C20_Witness ==
  /\ ChainInFlight
  /\ inflight[1].working = {}
  /\ inflight[1].iterations >= 2
  /\ inflight[1].iterations < inflight[1].max_depth
  /\ \E r \in inflight[1].result : \E f \in CorpusFunctions(DbA) :
       /\ r.depth >= 1
       /\ CallEdge(CHOOSE g \in functions : g.id = r.id, f)
       /\ f.name \in Range(r.path)

(***************************************************************************)
(* Properties of builds that run at the same time (SpecConcurrent).        *)
(***************************************************************************)
Running(b) == b.pc \notin {"done", "failed"}

\* both invocations were made and have returned or thrown
BothComplete ==
  /\ Len(inflight) = 2
  /\ ~Running(inflight[1])
  /\ ~Running(inflight[2])

\* a stored row without the ids the store gave it
Fact(t, r) == [c \in Columns(t) \ IdColumns |-> r[c]]

FactsOf(t, db, c) == {Fact(t, r) : r \in {x \in TableOf(db, t) : x.database_name = c}}

\* the store that the build of invocation b leaves when it runs alone
AloneBuild(b) == handleBuildGraphIndex(EmptyDB, b.database_name, b.ext)

\* corpus c holds the facts of the build of b alone, each once
HoldsBuildOf(c, b) ==
  \A t \in Tables :
    /\ FactsOf(t, DB, c) = FactsOf(t, AloneBuild(b).db, c)
    /\ Cardinality(StoredRows(t, c)) = Cardinality(FactsOf(t, DB, c))

\* C17: rebuilds are exclusive per corpus: two build_index invocations for
\* the same corpus never interleave their clear, insert and resolve steps
\* (the second never clears while the first is between its clear and its
\* return), and after both complete the store holds exactly the rows of a
\* single build of that corpus, with no fact stored twice.
C17_RebuildsExclusive ==
  (Len(inflight) = 2 /\ inflight[1].database_name = inflight[2].database_name) =>
    /\ ~(/\ Running(inflight[1]) /\ inflight[1].pc # "clear"
         /\ Running(inflight[2]) /\ inflight[2].pc # "clear")
    /\ BothComplete =>
         \E i \in 1..2 : HoldsBuildOf(inflight[i].database_name, inflight[i])

\* C18: concurrent build_index runs for two different corpora are independent:
\* under every interleaving of their extract, decode, read, insert and cleanup
\* steps each corpus ends with exactly the rows extracted from its own
\* analysis database and neither build fails because of the other.
C18_CorporaIndependent ==
  (BothComplete /\ inflight[1].database_name # inflight[2].database_name) =>
    \A i \in 1..2 :
      /\ inflight[i].ok = AloneBuild(inflight[i]).ok
      /\ HoldsBuildOf(inflight[i].database_name, inflight[i])

(***************************************************************************)
(* Properties of builds that insert in more than one batch (SpecBatches).  *)
(***************************************************************************)
\* C19: when a batch insert fails during the ingestion of a fact type, the
\* fact type is not left half-ingested: after the failed build the corpus
\* holds no row of a fact type whose ingestion the build did not complete (no
\* earlier batch of it remains visible).
C19_FailedBatchLeavesNothing ==
  (IsBuild(lastOp, DbA) /\ ~lastOp.ok) =>
    \A t \in Tables : lastOp.stats[t] < 0 => StoredRows(t, DbA) = {}

(***************************************************************************)
(* Properties of the resolver's scope (Spec).                              *)
(***************************************************************************)
\* the row of the set with the id, tagged with corpus c
TaggedTarget(rows, id, c) == \E r \in rows : r.id = id /\ r.database_name = c

\* C30: in every reachable store state each non-null resolved id (caller_id,
\* callee_id, parent_id, class_id, method_id) of a row tagged with a corpus
\* references a row tagged with the same corpus: the resolver never links a
\* row of one corpus to a function or class of another corpus.
C30_ResolvedWithinCorpus ==
  /\ \A fc \in function_calls :
       /\ fc.caller_id # NULLID => TaggedTarget(functions, fc.caller_id, fc.database_name)
       /\ fc.callee_id # NULLID => TaggedTarget(functions, fc.callee_id, fc.database_name)
  /\ \A c \in classes :
       c.parent_id # NULLID => TaggedTarget(classes, c.parent_id, c.database_name)
  /\ \A cm \in class_methods :
       /\ cm.class_id # NULLID => TaggedTarget(classes, cm.class_id, cm.database_name)
       /\ cm.method_id # NULLID => TaggedTarget(functions, cm.method_id, cm.database_name)


(***************************************************************************)
(* Properties of the evaluation of the class-hierarchy walk                *)
(* (SpecHierarchy).                                                        *)
(***************************************************************************)
HierarchyInFlight == inflight # <<>> /\ inflight[1].op = "get_class_hierarchy_graph"

\* the rows derived so far from one class of the non-recursive term
WalkOf(start) == {r \in inflight[1].working \cup inflight[1].result : r.start = start}

\* every row derived so far lies at most HierarchyLevelCap parent links above
\* its starting class, each starting class has one row per level and so at
\* most HierarchyLevelCap + 1 of them, and the working table was replaced at
\* most HierarchyLevelCap + 1 times
HierarchyBounded ==
  HierarchyInFlight =>
    /\ \A r \in inflight[1].working \cup inflight[1].result :
         /\ r.level <= HierarchyLevelCap
         /\ \A o \in WalkOf(r.start) : o.level = r.level => o = r
         /\ Cardinality(WalkOf(r.start)) <= HierarchyLevelCap + 1
    /\ inflight[1].iterations <= HierarchyLevelCap + 1

\* C21: the class-hierarchy walk terminates for every parent-link structure,
\* including a class that is its own ancestor: from each class with the given
\* name it follows at most 10 parent links, so it visits at most 11 levels per
\* starting class.
C21_HierarchyWalkTerminates ==
  [](HierarchyBounded) /\ (HierarchyInFlight ~> ~HierarchyInFlight)

\* a walk that ended at the level cap: the class is its own ancestor and was
\* visited on every level from 0 to HierarchyLevelCap
C21_Witness ==
  /\ HierarchyInFlight
  /\ inflight[1].working = {}
  /\ \E r \in inflight[1].result :
       /\ r.level = HierarchyLevelCap
       /\ r.id = r.start
       /\ Cardinality(WalkOf(r.start)) = HierarchyLevelCap + 1


(***************************************************************************)
(* Builds that run one after the other, step by step (SpecSteps): the      *)
(* tool is called again only when the invocation before it has returned    *)
(* or thrown.                                                              *)
(***************************************************************************)
StepLines ==
  {[BaseLines EXCEPT !.classes = <<ClassLine(KeyD, <<"D">>, KeyC),
                                   ClassLine(KeyC, <<"C">>, <<>>)>>,
                     !.class_methods = <<MethodLine(KeyD, KeyG, <<"m">>)>>],
   [functions |-> <<FunLine(KeyQ, <<"x">>)>>,
    function_calls |-> <<CallLine(KeyQ, KeyP, <<"9">>)>>,
    classes |-> <<ClassLine(KeyE, <<"E">>, KeyE)>>,
    class_methods |-> <<MethodLine(KeyE, KeyQ, <<"n">>)>>],
   [BaseLines EXCEPT !.function_calls = <<CallLine(KeyP, KeyG, <<"7">>),
                                           CallLine(KeyG, UnresolvedG, <<"8">>)>>,
                     !.class_methods = <<MethodLine(KeyD, KeyP, <<"m">>)>>]}

ExtSteps ==
  {ExtOfLines(l) : l \in StepLines}
    \cup {[ExtOfLines(BaseLines) EXCEPT !.function_calls = NoQueryFile]}

BuildStartAlone(database_name, ext) ==
  /\ \A i \in 1..Len(inflight) : ~Running(inflight[i])
  /\ BuildStart(database_name, ext)

NextSteps ==
  \/ \E c \in Corpora, ext \in ExtSteps : BuildStartAlone(c, ext)
  \/ \E i \in 1..MaxConcurrentBuilds : BuildClear(i)
  \/ \E i \in 1..MaxConcurrentBuilds : BuildExtract(i)
  \/ \E i \in 1..MaxConcurrentBuilds : BuildDecode(i)
  \/ \E i \in 1..MaxConcurrentBuilds : BuildRead(i)
  \/ \E i \in 1..MaxConcurrentBuilds : BuildInsert(i)
  \/ \E i \in 1..MaxConcurrentBuilds : BuildCleanup(i)
  \/ \E i \in 1..MaxConcurrentBuilds : BuildResolve(i)

SpecSteps == Init /\ [][NextSteps]_vars

(***************************************************************************)
(* Properties of the order of the steps of a build (SpecSteps).            *)
(***************************************************************************)
IdsOf(t, c) == {r.id : r \in StoredRows(t, c)}

\* the step stores a row of table t under corpus c
Ingests(t, c) == ~(IdsOf(t, c)' \subseteq IdsOf(t, c))

\* the step sets a resolved id of a stored row of corpus c
Resolves(c) ==
  \E t \in Tables : \E r \in StoredRows(t, c) : \E r2 \in StoredRows(t, c)' :
    /\ r.id = r2.id
    /\ \E col \in (IdColumns \cap Columns(t)) \ {"id"} :
         r[col] = NULLID /\ r2[col] # NULLID

\* the passes of an invocation are taken in the order of the extractions
\* (functions, calls, classes, methods), rows are stored only by the insert
\* step of the pass of their table, resolved ids are set only in the resolver
\* step, which is entered after the last pass and left for good
StepsInOrder ==
  /\ \A c \in Corpora : \A t \in Tables :
       Ingests(t, c) =>
         \E i \in 1..Len(inflight) :
           /\ inflight[i].database_name = c
           /\ inflight[i].pc = "insert"
           /\ extractions[inflight[i].k].table = t
  /\ \A c \in Corpora :
       Resolves(c) =>
         \E i \in 1..Len(inflight) :
           inflight[i].database_name = c /\ inflight[i].pc = "resolve"
  /\ \A i \in 1..Len(inflight) :
       LET b == inflight[i]
           b2 == inflight'[i]
       IN  /\ b2.k \in {b.k, b.k + 1}
           /\ b2.pc = "resolve" => b2.k = Len(extractions) + 1
           /\ b.pc = "resolve" => b2.pc \in {"done", "failed"}
           /\ (b2.pc = "done" /\ b.pc # "done") => b.pc = "resolve"
           /\ ~Running(b) => b2 = b

\* the row of the corpus with the key
KeyedIn(t, c, key) == {r \in StoredRows(t, c) : r.codeql_id = key}

\* every reference of a row of corpus c to a function or class stored under c
\* is resolved to the id of that function or class
AllResolved(c) ==
  /\ \A fc \in StoredRows("function_calls", c) :
       /\ \A f \in KeyedIn("functions", c, fc.caller_codeql_id) : fc.caller_id = f.id
       /\ \A f \in KeyedIn("functions", c, fc.callee_codeql_id) : fc.callee_id = f.id
  /\ \A k \in StoredRows("classes", c) :
       \A p \in KeyedIn("classes", c, k.parent_codeql_id) : k.parent_id = p.id
  /\ \A cm \in StoredRows("class_methods", c) :
       /\ \A k \in KeyedIn("classes", c, cm.class_codeql_id) : cm.class_id = k.id
       /\ \A f \in KeyedIn("functions", c, cm.method_codeql_id) : cm.method_id = f.id

\* the invocation made last has returned its answer
LastDone == inflight # <<>> /\ inflight[Len(inflight)].pc = "done"

\* C22: when build_index completes successfully the resolver has run exactly
\* once and only after functions, calls, classes and methods were all ingested,
\* in that order; consequently every call edge, class and membership row of
\* the corpus whose reference key equals the natural key of a stored function
\* or class of that corpus has its resolved id set, whatever the order in
\* which the rows were ingested.
C22_ResolverAfterIngestion ==
  /\ [][StepsInOrder]_vars
  /\ [](LastDone => AllResolved(inflight[Len(inflight)].database_name))

\* a build that returned with a class resolved to a parent stored after it, a
\* resolved call edge and a resolved membership row
C22_Witness ==
  /\ LastDone
  /\ \E c \in Corpora :
       /\ c = inflight[Len(inflight)].database_name
       /\ \E k \in StoredRows("classes", c) : \E p \in StoredRows("classes", c) :
            k.parent_id = p.id /\ p.id > k.id
       /\ \E fc \in StoredRows("function_calls", c) :
            fc.callee_id # NULLID /\ fc.caller_id # NULLID
       /\ \E cm \in StoredRows("class_methods", c) :
            cm.class_id # NULLID /\ cm.method_id # NULLID


(***************************************************************************)
(* Builds step by step whose functions fill a batch (SpecBatchSteps).      *)
(***************************************************************************)
\* a functions line with six fields more than the table has columns
WideFunLine ==
  JoinComma(<<KeyAt(1), <<"f">>, FileA, <<"2">>, <<"0">>, <<"s">>,
              <<"x">>, <<"x">>, <<"x">>, <<"x">>, <<"x">>, <<"x">>, <<"x">>>>)

\* as many functions as one batch holds, the first from the wide line
FullBatchLines ==
  [i \in 1..FunctionsBatchSize |->
     IF i = 1 THEN WideFunLine ELSE FunLine(KeyAt(i), <<"f">>)]

ExtFullBatch ==
  [functions |-> CsvFile(FullBatchLines), function_calls |-> NoQueryFile,
   classes |-> NoQueryFile, class_methods |-> NoQueryFile]

\* one function more than a batch holds, the first without a name
FirstBatchFailsLines ==
  [i \in 1..(FunctionsBatchSize + 1) |->
     FunLine(KeyAt(i), IF i = 1 THEN <<>> ELSE <<"f">>)]

ExtFirstBatchFails ==
  [functions |-> CsvFile(FirstBatchFailsLines), function_calls |-> NoQueryFile,
   classes |-> NoQueryFile, class_methods |-> NoQueryFile]

\* extractions with a line the store rejects: a call whose line is no number,
\* a class without a name, a membership without a method key
RejectedLines ==
  {[BaseLines EXCEPT !.function_calls = <<CallLine(KeyP, KeyG, <<"x">>)>>],
   [BaseLines EXCEPT !.classes = <<ClassLine(KeyC, <<>>, <<>>)>>],
   [BaseLines EXCEPT !.class_methods = <<MethodLine(KeyC, <<>>, <<"m">>)>>]}

ExtBatchSteps ==
  ExtSteps \cup {ExtTwoBatches, ExtFullBatch, ExtFirstBatchFails}
    \cup {ExtOfLines(l) : l \in RejectedLines}

MaxStepBuilds == 1

BuildStartBounded(database_name, ext) ==
  /\ builds < MaxStepBuilds
  /\ BuildStartAlone(database_name, ext)

NextBatchSteps ==
  \/ \E ext \in ExtBatchSteps : BuildStartBounded(DbA, ext)
  \/ \E i \in 1..MaxConcurrentBuilds : BuildClear(i)
  \/ \E i \in 1..MaxConcurrentBuilds : BuildExtract(i)
  \/ \E i \in 1..MaxConcurrentBuilds : BuildDecode(i)
  \/ \E i \in 1..MaxConcurrentBuilds : BuildRead(i)
  \/ \E i \in 1..MaxConcurrentBuilds : BuildInsert(i)
  \/ \E i \in 1..MaxConcurrentBuilds : BuildCleanup(i)
  \/ \E i \in 1..MaxConcurrentBuilds : BuildResolve(i)

SpecBatchSteps == Init /\ [][NextBatchSteps]_vars

(***************************************************************************)
(* Properties of the batches of a build (SpecBatchSteps).                  *)
(***************************************************************************)
\* the batches whose INSERT the batch loop sends: the slices of batchSize rows
\* from row i on, up to and including the first whose INSERT fails
RECURSIVE sentBatches(_, _, _, _, _, _)
sentBatches(db, table, actualColumns, values, batchSize, i) ==
  IF i >= Len(values) THEN <<>>
  ELSE LET hi == IF i + batchSize < Len(values) THEN i + batchSize ELSE Len(values)
           batch == SubSeq(values, i + 1, hi)
           res == InsertBatch(db, table, actualColumns, batch)
       IN  IF res.ok
             THEN <<batch>> \o sentBatches(res.db, table, actualColumns, values,
                                           batchSize, i + batchSize)
             ELSE <<batch>>

\* the batches that invocation b, about to insert, will send
BatchesOf(b) ==
  sentBatches(DB, extractions[b.k].table, actualColumnsOf(extractions[b.k]),
              b.acc.values, maxParams \div Len(actualColumnsOf(extractions[b.k])), 0)

\* the batches hold at most batchSize rows and at most maxParams values each
\* and are consecutive slices of the rows read
WithinParams(b, batches) ==
  /\ \A k \in 1..Len(batches) :
       /\ Len(batches[k]) <= maxParams \div Len(actualColumnsOf(extractions[b.k]))
       /\ Len(Flat(batches[k])) <= maxParams
  /\ Flat(batches) = SubSeq(b.acc.values, 1, Len(Flat(batches)))

\* C23: for every fact type and every batch, the INSERT statement sent to the
\* store binds at most 8000 parameters: a batch holds floor(8000 / columns)
\* rows, the columns counting the corpus tag and the derived callee_name, and
\* the batches are consecutive slices that hold every non-duplicate row once.
C23_BatchWithinParameters ==
  \A i \in 1..Len(inflight) :
    (inflight[i].pc = "insert" /\ inflight[i].acc.values # <<>>) =>
      \E batches \in {BatchesOf(inflight[i])} : WithinParams(inflight[i], batches)


(***************************************************************************)
(* Properties of a failed batch insert (SpecBatchSteps).                   *)
(***************************************************************************)
TableAt(b) == extractions[b.k].table

BatchSizeAt(b) == maxParams \div Len(actualColumnsOf(extractions[b.k]))

\* invocation i is about to run a batch loop in which the store rejects an
\* INSERT
InsertFails(i) ==
  /\ inflight[i].pc = "insert"
  /\ inflight[i].acc.values # <<>>
  /\ ~batchLoop(DB, TableAt(inflight[i]), actualColumnsOf(extractions[inflight[i].k]),
                inflight[i].acc.values, BatchSizeAt(inflight[i]), 0).ok

\* after the step the table holds the first n rows read, n rows making whole
\* batches, and the batch that follows them is one the store rejects
StoppedAtBatch(b, n) ==
  /\ n % BatchSizeAt(b) = 0
  /\ n < Len(b.acc.values)
  /\ {NaturalKey(TableAt(b), r) : r \in StoredRows(TableAt(b), b.database_name)}'
       = {b.acc.values[j][2] : j \in 1..n}
  /\ ~InsertBatch(DB', TableAt(b), actualColumnsOf(extractions[b.k]),
                  SubSeq(b.acc.values, n + 1,
                         IF n + BatchSizeAt(b) < Len(b.acc.values)
                           THEN n + BatchSizeAt(b) ELSE Len(b.acc.values))).ok

\* a failing batch insert ends the handler with the build failure, and no
\* batch after the failing one is stored
FailureReported ==
  \A i \in 1..Len(inflight) :
    InsertFails(i) =>
      /\ inflight'[i].pc = "failed"
      /\ lastOp'.op = "build_graph_index"
      /\ lastOp'.database_name = inflight[i].database_name
      /\ ~lastOp'.ok
      /\ \E n \in 0..Len(inflight[i].acc.values) : StoppedAtBatch(inflight[i], n)
      /\ \A t \in Tables \ {TableAt(inflight[i])} :
           StoredRows(t, inflight[i].database_name)'
             = StoredRows(t, inflight[i].database_name)

\* the invocation made last threw in the batch loop of a pass
InsertFailed ==
  /\ inflight # <<>>
  /\ inflight[Len(inflight)].pc = "failed"
  /\ inflight[Len(inflight)].k <= Len(extractions)
  /\ inflight[Len(inflight)].ext[TableAt(inflight[Len(inflight)])].present

\* no resolved id of a row of corpus c is set
Unresolved(c) ==
  \A t \in Tables : \A r \in StoredRows(t, c) :
    \A col \in (IdColumns \cap Columns(t)) \ {"id"} : r[col] = NULLID

\* no fact type after that of the failing pass is stored or counted, and the
\* resolver has not run
NothingAfterFailure ==
  InsertFailed =>
    \E b \in {inflight[Len(inflight)]} :
      /\ \A k \in (b.k + 1)..Len(extractions) :
           /\ StoredRows(extractions[k].table, b.database_name) = {}
           /\ b.stats[extractions[k].table] = -1
      /\ b.stats[TableAt(b)] = -1
      /\ Unresolved(b.database_name)

\* C24: if a batch insert fails during build_index, the failure is reported as
\* a build failure, no later batch and no later fact type is ingested, and the
\* resolver is not run.
C24_FailedBatchEndsBuild == [][FailureReported]_vars /\ [](NothingAfterFailure)

\* a build that failed inserting its classes: the call edge ingested before is
\* stored with its caller unresolved although the caller is stored, and the
\* membership rows of the extraction are not
C24_Witness ==
  /\ InsertFailed
  /\ TableAt(inflight[Len(inflight)]) = "classes"
  /\ \E fc \in StoredRows("function_calls", DbA) :
       /\ fc.caller_id = NULLID
       /\ KeyedIn("functions", DbA, fc.caller_codeql_id) # {}
  /\ FactLines(inflight[Len(inflight)].ext.class_methods) # <<>>
  /\ StoredRows("class_methods", DbA) = {}


(***************************************************************************)
(* Properties of the derived callee name (SpecSteps).                      *)
(***************************************************************************)
\* the callee reference without a leading "unresolved:"
WithoutPrefix(ref) ==
  IF StartsWith(ref, UnresolvedPrefix)
    THEN SubSeq(ref, Len(UnresolvedPrefix) + 1, Len(ref))
    ELSE ref

\* the part of the text before its first "@"
NamePart(s) == SubSeq(s, 1, IndexOf(s, "@") - 1)

\* C25: every stored call edge has a non-null callee_name, equal to the part
\* of its callee reference before the first '@' after removing a leading
\* 'unresolved:' prefix, for both recognised forms unresolved:<name>@<file>:<line>
\* and <entityRepresentation>@<file>:<line>.
C25_CalleeNamePopulated ==
  \A fc \in function_calls :
    /\ fc.callee_name # NULL
    /\ fc.callee_name = NamePart(WithoutPrefix(fc.callee_codeql_id))

\* a corpus with a stored call edge of each form
C25_Witness ==
  /\ BuildDone
  /\ \E fc \in function_calls :
       StartsWith(fc.callee_codeql_id, UnresolvedPrefix) /\ fc.callee_name = <<"g">>
  /\ \E fc \in function_calls :
       ~StartsWith(fc.callee_codeql_id, UnresolvedPrefix) /\ fc.callee_name # NULL


(***************************************************************************)
(* Row parsing on its own (SpecParse): the input is either the CSV line of *)
(* a sequence of fields, a field with a comma or a quote written in quotes *)
(* with its quotes doubled, or any line of at most MaxLineLen characters.  *)
(***************************************************************************)
MaxFields == 2
MaxFieldLen == 2
MaxLineLen == 4

FieldChars == {"a", ",", "\""}
LineChars == FieldChars \cup {" "}

TextsUpTo(chars, n) == UNION {[1..k -> chars] : k \in 0..n}

RECURSIVE DoubledQuotes(_)
DoubledQuotes(s) ==
  IF s = <<>> THEN <<>>
  ELSE (IF Head(s) = "\"" THEN <<"\"", "\"">> ELSE <<Head(s)>>) \o DoubledQuotes(Tail(s))

CsvField(f) ==
  IF \E i \in 1..Len(f) : f[i] \in {",", "\""}
    THEN <<"\"">> \o DoubledQuotes(f) \o <<"\"">>
    ELSE f

CsvLineOf(fields) == JoinComma([i \in 1..Len(fields) |-> CsvField(fields[i])])

ParseInputs ==
  {[op |-> "input", written |-> TRUE, fields |-> fs, line |-> CsvLineOf(fs)] :
     fs \in UNION {[1..k -> TextsUpTo(FieldChars, MaxFieldLen)] : k \in 1..MaxFields}}
    \cup {[op |-> "input", written |-> FALSE, fields |-> <<>>, line |-> l] :
            l \in TextsUpTo(LineChars, MaxLineLen)}

InitParse ==
  /\ functions = {}
  /\ classes = {}
  /\ function_calls = {}
  /\ class_methods = {}
  /\ seq = EmptyDB.seq
  /\ builds = 0
  /\ lastOp \in ParseInputs
  /\ relations = TRUE
  /\ tempDir = {}
  /\ inflight = <<>>

\* the row loop parses one line
ParseRow ==
  /\ lastOp.op = "input"
  /\ lastOp' = [lastOp EXCEPT !.op = "parseCSVLine"] @@ [parts |-> partsOf(lastOp.line)]
  /\ UNCHANGED <<functions, classes, function_calls, class_methods, seq, builds,
                 environment>>

NextParse == ParseRow

SpecParse == InitParse /\ [][NextParse]_vars

(***************************************************************************)
(* Properties of row parsing (SpecParse).                                  *)
(***************************************************************************)
\* position i of the line lies outside quotes: the quote characters before it
\* pair up
OutsideQuotes(line, i) ==
  Cardinality({j \in 1..(i - 1) : line[j] = "\""}) % 2 = 0

Delimiters(line) == {i \in 1..Len(line) : line[i] = "," /\ OutsideQuotes(line, i)}

\* C26: row parsing splits a line into fields at every delimiter outside
\* quotes and nowhere else; a quoted field containing the delimiter is
\* returned as one field with the delimiter kept, a doubled quote inside a
\* quoted field yields one quote character, and an empty field becomes null.
C26_RowParsing ==
  lastOp.op = "parseCSVLine" =>
    /\ Len(lastOp.parts) = Cardinality(Delimiters(lastOp.line)) + 1
    /\ lastOp.written =>
         lastOp.parts = [i \in 1..Len(lastOp.fields) |->
                           IF lastOp.fields[i] = <<>> THEN NULL ELSE lastOp.fields[i]]

\* the line of a field holding a comma and a quote, followed by an empty field
C26_Witness ==
  /\ lastOp.op = "parseCSVLine"
  /\ lastOp.written
  /\ lastOp.fields = << <<",", "\"">>, <<>> >>
  /\ lastOp.line = <<"\"", ",", "\"", "\"", "\"", ",">>
  /\ lastOp.parts = << <<",", "\"">>, NULL >>


(***************************************************************************)
(* Properties of the path find_call_chain returns (SpecQuery).             *)
(***************************************************************************)
\* a stored call edge leads from a function named n1 to a function of corpus c
\* named n2, by its resolved callee id or by its callee_name
EdgeBetween(c, n1, n2) ==
  \E fc \in function_calls : \E f \in functions : \E g \in functions :
    /\ f.name = n1
    /\ fc.caller_id = f.id
    /\ g.name = n2
    /\ g.database_name = c
    /\ (g.id = fc.callee_id \/ g.name = fc.callee_name)

\* C27: every path find_call_chain returns starts with the name from, ends
\* with the name to, holds no name twice, has length depth + 1 with
\* depth <= max_depth, and each consecutive pair of its names is connected by
\* a stored call edge whose caller is a function with the first name and whose
\* callee, by resolved id or by callee_name, is a function of the same corpus
\* with the second name; when from = to the result is the single-element path
\* at depth 0.
C27_ReturnedPathWellFormed ==
  IsChainQuery =>
    /\ lastOp.result.found =>
         \E p \in {lastOp.result.path} :
           /\ p[1] = lastOp.from_function
           /\ p[Len(p)] = lastOp.to_function
           /\ \A i, j \in 1..Len(p) : p[i] = p[j] => i = j
           /\ Len(p) = lastOp.result.depth + 1
           /\ lastOp.result.depth <= lastOp.max_depth
           /\ \A i \in 1..(Len(p) - 1) :
                EdgeBetween(lastOp.database_name, p[i], p[i + 1])
    /\ (/\ lastOp.from_function = lastOp.to_function
        /\ \E f \in CorpusFunctions(lastOp.database_name) : f.name = lastOp.from_function)
         => /\ lastOp.result.found
            /\ lastOp.result.path = <<lastOp.from_function>>
            /\ lastOp.result.depth = 0

\* a path of two edges returned whose first edge is unresolved and leads to
\* its callee by callee_name alone
C27_Witness ==
  /\ IsChainQuery
  /\ lastOp.result.found
  /\ lastOp.result.depth = 2
  /\ lastOp.result.path = << <<"a">>, <<"x">>, <<"t">> >>
  /\ \A fc \in function_calls : \A f \in functions :
       (f.name = <<"a">> /\ fc.caller_id = f.id) => fc.callee_id = NULLID


(***************************************************************************)
(* Properties of the rows find_callers returns (SpecQuery).                *)
(***************************************************************************)
IsCallersQuery == lastOp.op = "find_callers_graph"

\* C28: in a find_callers result each stored call edge appears at most once,
\* also an edge that matches both by the name of its resolved callee and by
\* its fallback callee_name.
C28_EdgeReportedOnce ==
  IsCallersQuery =>
    \A r1, r2 \in lastOp.rows : r1.edge = r2.edge => r1 = r2

\* a result with an edge whose resolved callee bears the name asked for and
\* whose callee_name is that name too
C28_Witness ==
  /\ IsCallersQuery
  /\ \E r \in lastOp.rows : \E fc \in function_calls : \E g \in functions :
       /\ fc.id = r.edge
       /\ g.id = fc.callee_id
       /\ g.name = lastOp.function_name
       /\ fc.callee_name = lastOp.function_name


(***************************************************************************)
(* Properties of a failed rebuild (SpecFaults).                            *)
(***************************************************************************)
\* the step is a build of corpus c that fails
FailingBuild(c) ==
  /\ builds' = builds + 1
  /\ IsBuild(lastOp', c)
  /\ ~lastOp'.ok

\* C29: if build_index for a corpus fails, for whatever reason, the rows that
\* the last successful build of the corpus stored are unchanged and remain
\* queryable.
C29_FailedBuildKeepsRows ==
  [][\A c \in Corpora :
       (IsBuild(lastOp, c) /\ lastOp.ok /\ FailingBuild(c)) =>
         \A t \in Tables : StoredRows(t, c)' = StoredRows(t, c)]_vars

====
